---- MODULE Spec2Model ----
(***************************************************************************)
(* Inventory consistency core of the scrap-shop backend: the purchase      *)
(* lifecycle (purchases.py, purchase_items.py, payments.py), the stock     *)
(* sale processor (inventory.py) and the ledger triggers (models.py).      *)
(*                                                                         *)
(* Every request handler runs in its own database session.  A handler is   *)
(* modelled statement by statement: a statement reads the committed rows   *)
(* (PostgreSQL READ COMMITTED, the engine default of database.py), its     *)
(* writes stay in the session's write set wr[t] until COMMIT, and a        *)
(* statement that needs a row lock held by another session is not enabled  *)
(* until that session commits or rolls back.                               *)
(*                                                                         *)
(* Weights are integers in thousandths of a unit; a DECIMAL(n,2) column    *)
(* stores a multiple of 10.  Money is in hundredths.                       *)
(***************************************************************************)
EXTENDS Integers, Sequences, FiniteSets, TLC

\* ---------------------------------------------------------------- bounds
MaxPurchases == 2
MaxItems == 2
MaxSales == 2
MaxPayments == 2
\* the largest small price sent to the rounding (thousandths)
MaxThousandths == 30
\* the number of times the updated_at of a purchase is set by status row events
MaxRefresh == 4

\* ---------------------------------------------------------------- catalog
\* rows of table product; product 2 was created after startup (no ledger row)
Products == {1, 2}
\* ids that are not in table product
UnknownProducts == {3}
\* prod_price of each product, in hundredths
ProdPrice == [p \in Products |-> IF p = 1 THEN 150 ELSE 0]
Procs == {1, 2}
PurchaseIds == 1..MaxPurchases
NoNote == "none"

VARIABLES
  purchases,    \* table purchases: purchase_id -> "NONE" (no row) | "OPEN" | "DONE"
  updatedAt,    \* purchases.updated_at: purchase_id -> the number of times the
                \* column was set to now() (0: no row)
  items,        \* table purchase_items: set of [id, pid, prod, w, price]
  photos,       \* table purchase_item_photos: ids of the items that have a photo row
  payments,     \* table payment: set of [id, pid, amt]
  sales,        \* table stock_sales: set of [id, prod, w, note]
  totals,       \* table product_inventory_totals: prod -> [has, pw, sw]
  nextPurchase, nextItem, nextSale, nextPayment,   \* the SERIAL sequences
  pc,           \* position of each session's handler
  req,          \* the request a session is serving
  loc,          \* the handler's local variables
  wr,           \* the session's uncommitted writes (and the row locks they hold)
  res           \* the last response each session returned

dbVars == <<purchases, updatedAt, items, photos, payments, sales, totals>>
seqVars == <<nextPurchase, nextItem, nextSale, nextPayment>>
procVars == <<pc, req, loc, wr, res>>
vars == <<purchases, updatedAt, items, photos, payments, sales, totals,
          nextPurchase, nextItem, nextSale, nextPayment, pc, req, loc, wr, res>>

\* ---------------------------------------------------------------- numbers
\* a value written to a DECIMAL(n,2) column: numeric rounding, ties away from zero
Round2(m) == ((m + 5) \div 10) * 10

RECURSIVE SumW(_)
\* SUM(weight) over a set of rows
SumW(S) ==
  IF S = {} THEN 0
  ELSE LET x == CHOOSE y \in S : TRUE IN x.w + SumW(S \ {x})

RECURSIVE SumPrice(_)
\* SUM(price) over a set of rows
SumPrice(S) ==
  IF S = {} THEN 0
  ELSE LET x == CHOOSE y \in S : TRUE IN x.price + SumPrice(S \ {x})

RECURSIVE SumDelta(_)
\* the sum of the second components of a set of <<prod, delta>> rows
SumDelta(R) ==
  IF R = {} THEN 0
  ELSE LET x == CHOOSE y \in R : TRUE IN x[2] + SumDelta(R \ {x})

\* ---------------------------------------------------------------- ledger rows
NoTotals == [has |-> FALSE, pw |-> 0, sw |-> 0]
ZeroTotals == [has |-> TRUE, pw |-> 0, sw |-> 0]

\* INSERT INTO product_inventory_totals (prod_id, <col>) VALUES rows
\* ON CONFLICT (prod_id) DO UPDATE SET <col> = <col> + EXCLUDED.<col>
\* rows: set of <<prod, delta>>, at most one per product
DeltaOf(rows, p) == SumDelta({r \in rows : r[1] = p})
Touched(rows) == {r[1] : r \in rows}

UpsertTotals(tot, rows, col) ==
  [p \in Products |->
     IF p \notin Touched(rows) THEN tot[p]
     ELSE LET d == DeltaOf(rows, p) IN
          IF col = "pw"
            THEN [has |-> TRUE, pw |-> tot[p].pw + d, sw |-> tot[p].sw]
            ELSE [has |-> TRUE, pw |-> tot[p].pw, sw |-> tot[p].sw + d]]

\* balance_weight = COALESCE(purchased_weight,0) - COALESCE(sold_weight,0)
Balance(tot, p) == tot[p].pw - tot[p].sw

\* ---------------------------------------------------------------- triggers
\* an UPDATE branch that credits the new row without debiting the old one
TrgStockSalesMissedOld(tgop, old, new) ==
  CASE tgop = "INSERT" -> {<<new.prod, new.w>>}
    [] tgop = "DELETE" -> {<<old.prod, 0 - old.w>>}
    [] OTHER -> {<<new.prod, new.w>>}

\* trg_upsert_totals_from_stock_sales: the rows it upserts into sold_weight
TrgStockSales(tgop, old, new) ==
  CASE tgop = "INSERT" -> {<<new.prod, new.w>>}
    [] tgop = "DELETE" -> {<<old.prod, 0 - old.w>>}
    [] OTHER ->
       IF new.prod = old.prod
         THEN {<<new.prod, new.w - old.w>>}
         ELSE {<<old.prod, 0 - old.w>>, <<new.prod, new.w>>}

\* an item trigger without the status guard: every item counts at once
TrgPurchaseItemsUnguarded(tgop, old, new, st) ==
  CASE tgop = "INSERT" -> {<<new.prod, new.w>>}
    [] tgop = "DELETE" -> {<<old.prod, 0 - old.w>>}
    [] OTHER ->
         IF new.prod = old.prod
           THEN {<<new.prod, new.w - old.w>>}
           ELSE {<<old.prod, 0 - old.w>>, <<new.prod, new.w>>}

\* an item trigger whose guard lets the items of an OPEN purchase count as well
TrgPurchaseItemsCountsOpen(tgop, old, new, st) ==
  CASE tgop = "INSERT" ->
         IF st[new.pid] # "NONE" THEN {<<new.prod, new.w>>} ELSE {}
    [] tgop = "DELETE" ->
         IF st[old.pid] # "NONE" THEN {<<old.prod, 0 - old.w>>} ELSE {}
    [] OTHER ->
         IF st[new.pid] # "NONE" THEN {<<new.prod, new.w - old.w>>} ELSE {}

\* an item trigger whose UPDATE branch only credits the new row: the old weight
\* stays counted for the old product and the old parent
TrgPurchaseItemsKeepsOld(tgop, old, new, st) ==
  CASE tgop = "INSERT" ->
         IF st[new.pid] = "DONE" THEN {<<new.prod, new.w>>} ELSE {}
    [] tgop = "DELETE" ->
         IF st[old.pid] = "DONE" THEN {<<old.prod, 0 - old.w>>} ELSE {}
    [] OTHER ->
         IF st[new.pid] = "DONE" THEN {<<new.prod, new.w>>} ELSE {}

\* trg_upsert_totals_from_purchase_items_guarded: the rows it upserts into
\* purchased_weight; st is the purchases.purchase_status the trigger's SELECT sees
\* ("NONE": no row, v_status is NULL)
TrgPurchaseItems(tgop, old, new, st) ==
  CASE tgop = "INSERT" ->
         IF st[new.pid] = "DONE" THEN {<<new.prod, new.w>>} ELSE {}
    [] tgop = "DELETE" ->
         IF st[old.pid] = "DONE" THEN {<<old.prod, 0 - old.w>>} ELSE {}
    [] OTHER ->
         IF new.pid = old.pid
           THEN IF st[new.pid] = "DONE"
                  THEN IF new.prod = old.prod
                         THEN {<<new.prod, new.w - old.w>>}
                         ELSE {<<old.prod, 0 - old.w>>, <<new.prod, new.w>>}
                  ELSE {}
           ELSE (IF st[old.pid] = "DONE" THEN {<<old.prod, 0 - old.w>>} ELSE {})
                \cup (IF st[new.pid] = "DONE" THEN {<<new.prod, new.w>>} ELSE {})

\* the agg CTE: SUM(weight) of the purchase's items GROUP BY prod_id
AggItems(its, pid, sign) ==
  {<<p, sign * SumW({i \in its : i.pid = pid /\ i.prod = p})>> :
     p \in {i.prod : i \in {j \in its : j.pid = pid}}}

\* a status trigger whose reopen branch applies no delta
TrgPurchaseStatusNoReopen(oldSt, newSt, pid, its) ==
  IF oldSt # "DONE" /\ newSt = "DONE" THEN AggItems(its, pid, 1)
  ELSE {}

\* trg_apply_totals_when_purchase_status_changes, AFTER UPDATE OF purchase_status
TrgPurchaseStatus(oldSt, newSt, pid, its) ==
  IF oldSt # "DONE" /\ newSt = "DONE" THEN AggItems(its, pid, 1)
  ELSE IF oldSt = "DONE" /\ newSt # "DONE" THEN AggItems(its, pid, 0 - 1)
  ELSE {}

\* ---------------------------------------------------------------- sessions
NoReq == [op |-> "none", pid |-> 0, iid |-> 0, prod |-> 0, w |-> 0, price |-> 0,
          mode |-> "half_up", lines |-> <<>>, kind |-> "none",
          onOpen |-> "return", confirm |-> FALSE, valid |-> TRUE, step |-> 0]
NoLoc == [i |-> 0, seen |-> 0, rowcount |-> 0, amount |-> 0]
ZeroDelta == [p \in Products |-> 0]
NoWrites == [insItems |-> {}, insPhotos |-> {}, delItems |-> {}, delPhotos |-> {},
             price |-> {}, status |-> {}, delPurch |-> {}, payIns |-> {},
             sales |-> {}, ensured |-> {}, locked |-> {}, touched |-> {},
             dpw |-> ZeroDelta, dsw |-> ZeroDelta]
NoRes == [op |-> "none", code |-> 0, pid |-> 0, resumed |-> FALSE,
          prod |-> 0, qty |-> 0, avail |-> 0, created |-> <<>>, missing |-> {},
          notice |-> "none"]
Resp(op, code) == [NoRes EXCEPT !.op = op, !.code = code]

\* ---- row locks held by the other sessions
\* a ledger row another session inserted, upserted or selected FOR UPDATE
TotLocked(t, p) ==
  \E u \in Procs \ {t} : p \in wr[u].ensured \cup wr[u].locked \cup wr[u].touched
\* a purchase_items row another session updated or deleted
ItemLocked(t, i) ==
  \E u \in Procs \ {t} : i \in wr[u].delItems \cup {x[1] : x \in wr[u].price}
PhotoLocked(t, i) == \E u \in Procs \ {t} : i \in wr[u].delPhotos
\* FOR KEY SHARE on a purchases row: another session inserted a row that references it
PurchKeyShared(t, pid) ==
  \E u \in Procs \ {t} :
     \/ \E it \in wr[u].insItems : it.pid = pid
     \/ \E py \in wr[u].payIns : py.pid = pid
\* another session updated (FOR NO KEY UPDATE) or deleted (FOR UPDATE) the purchases row
PurchWriteLocked(t, pid) ==
  \E u \in Procs \ {t} : pid \in wr[u].status \cup wr[u].delPurch
PurchDeleteLocked(t, pid) == \E u \in Procs \ {t} : pid \in wr[u].delPurch

\* ---- buffering a trigger's upserts in the session's write set
BufferUpsert(w, rows, col) ==
  [w EXCEPT !.touched = @ \cup Touched(rows),
            !.dpw = [p \in Products |-> @[p] + (IF col = "pw" THEN DeltaOf(rows, p) ELSE 0)],
            !.dsw = [p \in Products |-> @[p] + (IF col = "sw" THEN DeltaOf(rows, p) ELSE 0)]]

\* ---- COMMIT: the tables after the session's writes are applied
\* ON DELETE CASCADE from purchases to purchase_items
CascadedItems(w) == {i \in items : i.pid \in w.delPurch}
CommitPurchases(w) ==
  [p \in PurchaseIds |->
     IF p \in w.delPurch THEN "NONE"
     ELSE IF p \in w.status /\ purchases[p] # "NONE" THEN "DONE"
     ELSE purchases[p]]
\* updated_at: trg_set_updated_at sets it BEFORE UPDATE ON purchases, for each
\* row the session updated
CommitUpdatedAt(w) ==
  [p \in PurchaseIds |->
     IF p \in w.delPurch THEN 0
     ELSE IF p \in w.status /\ purchases[p] # "NONE" THEN updatedAt[p] + 1
     ELSE updatedAt[p]]
\* an UPDATE of the price whose WHERE clause does not name the item
CommitItemsRepricesAll(w) ==
  LET kept == {i \in items : i.id \notin w.delItems /\ i.pid \notin w.delPurch}
      priced == {IF w.price # {}
                   THEN [i EXCEPT !.price = (CHOOSE x \in w.price : TRUE)[2]]
                   ELSE i : i \in kept}
  IN priced \cup w.insItems
CommitItems(w) ==
  LET kept == {i \in items : i.id \notin w.delItems /\ i.pid \notin w.delPurch}
      priced == {IF \E x \in w.price : x[1] = i.id
                   THEN [i EXCEPT !.price = (CHOOSE x \in w.price : x[1] = i.id)[2]]
                   ELSE i : i \in kept}
  IN priced \cup w.insItems
\* ON DELETE CASCADE from purchase_items to purchase_item_photos
CommitPhotos(w) ==
  (photos \ (w.delPhotos \cup w.delItems \cup {i.id : i \in CascadedItems(w)}))
    \cup w.insPhotos
\* upserts that SET the column to EXCLUDED's value instead of adding to it
CommitTotalsOverwrites(w) ==
  [p \in Products |->
     IF p \in w.ensured \cup w.touched
       THEN [has |-> TRUE, pw |-> w.dpw[p], sw |-> w.dsw[p]]
       ELSE totals[p]]
CommitTotals(w) ==
  [p \in Products |->
     IF p \in w.ensured \cup w.touched
       THEN [has |-> TRUE, pw |-> totals[p].pw + w.dpw[p], sw |-> totals[p].sw + w.dsw[p]]
       ELSE totals[p]]

\* The rows a session inserted into stock_sales and payment carry their position
\* in the session (1, 2, ...) as id until COMMIT and get their SERIAL value then:
\* the values a rolled back INSERT draws from a sequence are not modelled.
CommitSales(w) == sales \cup {[r EXCEPT !.id = nextSale + r.id - 1] : r \in w.sales}
CommitPayments(w) ==
  payments \cup {[r EXCEPT !.id = nextPayment + r.id - 1] : r \in w.payIns}

Commit(t) ==
  /\ purchases' = CommitPurchases(wr[t])
  /\ updatedAt' = CommitUpdatedAt(wr[t])
  /\ items' = CommitItems(wr[t])
  /\ photos' = CommitPhotos(wr[t])
  /\ payments' = CommitPayments(wr[t])
  /\ sales' = CommitSales(wr[t])
  /\ totals' = CommitTotals(wr[t])
  /\ nextSale' = nextSale + Cardinality(wr[t].sales)
  /\ nextPayment' = nextPayment + Cardinality(wr[t].payIns)
  /\ wr' = [wr EXCEPT ![t] = NoWrites]

\* ROLLBACK (also what closing the session does to an open transaction)
Rollback(t) ==
  /\ UNCHANGED <<dbVars, nextSale, nextPayment>>
  /\ wr' = [wr EXCEPT ![t] = NoWrites]

\* the handler returns (or raises) and the session goes back to the pool
Finish(t, r) ==
  /\ pc' = [pc EXCEPT ![t] = "idle"]
  /\ req' = [req EXCEPT ![t] = NoReq]
  /\ loc' = [loc EXCEPT ![t] = NoLoc]
  /\ res' = [res EXCEPT ![t] = r]

\* no request is in progress
AllIdle == \A t \in Procs : pc[t] = "idle"
\* the sessions that are serving a request of kind op
Serving(op) == {u \in Procs : req[u].op = op}
RECURSIVE LinesInFlight(_)
LinesInFlight(T) ==
  IF T = {} THEN 0
  ELSE LET u == CHOOSE x \in T : TRUE IN Len(req[u].lines) + LinesInFlight(T \ {u})

\* a request arrives: the previous response has been delivered
Start(t, label, r) ==
  /\ pc' = [pc EXCEPT ![t] = label]
  /\ req' = [req EXCEPT ![t] = r]
  /\ res' = [res EXCEPT ![t] = NoRes]
  /\ UNCHANGED loc

Goto(t, label) ==
  /\ pc' = [pc EXCEPT ![t] = label]
  /\ UNCHANGED <<req, res>>

\* ---------------------------------------------------------------- sell_bulk
LineProds(lines) == {lines[i].prod : i \in DOMAIN lines}

RECURSIVE AggregateUpTo(_, _, _)
AggregateUpTo(lines, p, n) ==
  IF n = 0 THEN 0
  ELSE AggregateUpTo(lines, p, n - 1) + (IF lines[n].prod = p THEN lines[n].w ELSE 0)
\* aggregate[line.prod_id] += float(line.weight_sold), summed over the whole batch
Aggregate(lines, p) == AggregateUpTo(lines, p, Len(lines))

\* the products whose aggregated request exceeds the balance read under the lock
Offenders(lines, tot) ==
  {p \in LineProds(lines) : Aggregate(lines, p) > Balance(tot, p)}
FirstIdx(lines, p) == CHOOSE i \in DOMAIN lines :
  lines[i].prod = p /\ \A j \in 1..(i - 1) : lines[j].prod # p
\* aggregate.items() iterates in insertion order: the first offender raises
FirstOffender(lines, tot) == CHOOSE p \in Offenders(lines, tot) :
  \A q \in Offenders(lines, tot) : FirstIdx(lines, p) <= FirstIdx(lines, q)

\* the row INSERT INTO stock_sales (prod_id, weight_sold) stores for a line
SaleRow(id, line) == [id |-> id, prod |-> line.prod, w |-> Round2(line.w), note |-> NoNote]

\* a handler that takes the batch as it comes
SellBeginUnvalidated(t, lines) ==
  /\ pc[t] = "idle"
  /\ Cardinality(sales) + LinesInFlight(Serving("sell")) + Len(lines) <= MaxSales
  /\ Start(t, "sell_exist", [NoReq EXCEPT !.op = "sell", !.lines = lines])
  /\ UNCHANGED <<dbVars, seqVars, wr>>

\* request validation (SellLine: prod_id >= 1, weight_sold > 0) and `if not lines`
SellBegin(t, lines) ==
  /\ pc[t] = "idle"
  /\ Cardinality(sales) + LinesInFlight(Serving("sell")) + Len(lines) <= MaxSales
  /\ IF \E i \in DOMAIN lines : lines[i].w <= 0 \/ lines[i].prod < 1
       THEN Finish(t, Resp("sell", 422))
       ELSE IF lines = <<>>
         THEN Finish(t, Resp("sell", 400))
         ELSE Start(t, "sell_exist", [NoReq EXCEPT !.op = "sell", !.lines = lines])
  /\ UNCHANGED <<dbVars, seqVars, wr>>

\* an existence test that runs after ensure_sql, outside the transaction: the
\* zero rows of the products that do exist are committed before the 404
SellExistAfterEnsure(t) ==
  /\ pc[t] = "sell_exist"
  /\ IF LineProds(req[t].lines) \ Products # {}
       THEN /\ Finish(t, [Resp("sell", 404) EXCEPT
                           !.missing = LineProds(req[t].lines) \ Products])
            /\ totals' = [p \in Products |->
                  IF p \in LineProds(req[t].lines) /\ ~totals[p].has
                    THEN ZeroTotals ELSE totals[p]]
            /\ UNCHANGED <<purchases, updatedAt, items, photos, payments, sales>>
       ELSE Goto(t, "sell_ensure") /\ UNCHANGED <<loc, dbVars>>
  /\ UNCHANGED <<seqVars, wr>>

\* 0) every product exists, else 404 naming the missing ids
SellExist(t) ==
  /\ pc[t] = "sell_exist"
  /\ IF LineProds(req[t].lines) \ Products # {}
       THEN /\ Finish(t, [Resp("sell", 404) EXCEPT
                           !.prod = CHOOSE m \in LineProds(req[t].lines) \ Products :
                             \A n \in LineProds(req[t].lines) \ Products : m <= n,
                           !.missing = LineProds(req[t].lines) \ Products])
       ELSE Goto(t, "sell_ensure") /\ UNCHANGED loc
  /\ UNCHANGED <<dbVars, seqVars, wr>>

\* 1) ensure_sql: a zero row for every product of the batch that has none
SellEnsure(t) ==
  /\ pc[t] = "sell_ensure"
  /\ LET need == {p \in LineProds(req[t].lines) : ~totals[p].has} IN
       /\ \A p \in need : ~TotLocked(t, p)
       /\ wr' = [wr EXCEPT ![t].ensured = need]
  /\ Goto(t, "sell_lock")
  /\ UNCHANGED <<dbVars, seqVars, loc>>

\* 2) lock_sql, 3) cur_sql (SELECT ... FOR UPDATE) and 4) the aggregated check
SellLockCheck(t) ==
  /\ pc[t] = "sell_lock"
  /\ \A p \in LineProds(req[t].lines) : ~TotLocked(t, p)
  /\ IF Offenders(req[t].lines, totals) # {}
       THEN LET p == FirstOffender(req[t].lines, totals) IN
            /\ Finish(t, [Resp("sell", 409) EXCEPT !.prod = p,
                           !.qty = Aggregate(req[t].lines, p),
                           !.avail = Balance(totals, p)])
            /\ Rollback(t)
       ELSE /\ wr' = [wr EXCEPT ![t].locked = LineProds(req[t].lines)]
            /\ loc' = [loc EXCEPT ![t].i = 1]
            /\ Goto(t, "sell_insert")
            /\ UNCHANGED <<dbVars, nextSale, nextPayment>>
  /\ UNCHANGED <<nextPurchase, nextItem>>

\* 5) one INSERT INTO stock_sales per line; the trigger upserts sold_weight
SellInsert(t) ==
  /\ pc[t] = "sell_insert"
  /\ loc[t].i <= Len(req[t].lines)
  /\ LET row == SaleRow(loc[t].i, req[t].lines[loc[t].i]) IN
       /\ wr' = [wr EXCEPT ![t] =
                   BufferUpsert([@ EXCEPT !.sales = @ \cup {row}],
                                TrgStockSales("INSERT", row, row), "sw")]
       /\ loc' = [loc EXCEPT ![t].i = @ + 1]
  /\ UNCHANGED <<dbVars, seqVars, pc, req, res>>

\* an error handler that commits what was inserted so far
SellInsertFailsKeepsRows(t) ==
  /\ pc[t] = "sell_insert"
  /\ Finish(t, Resp("sell", 500))
  /\ Commit(t)
  /\ UNCHANGED <<nextPurchase, nextItem>>

\* an unexpected error while inserting (except Exception -> 500): the
\* transaction of `with db.begin()` is rolled back
SellInsertFails(t) ==
  /\ pc[t] = "sell_insert"
  /\ Finish(t, Resp("sell", 500))
  /\ Rollback(t)
  /\ UNCHANGED <<nextPurchase, nextItem>>

\* leaving `with db.begin()` commits
SellCommit(t) ==
  /\ pc[t] = "sell_insert"
  /\ loc[t].i > Len(req[t].lines)
  /\ Commit(t)
  /\ Finish(t, [Resp("sell", 200) EXCEPT !.created = req[t].lines])
  /\ UNCHANGED <<nextPurchase, nextItem>>

SellStep(t) ==
  \/ SellExist(t) \/ SellEnsure(t) \/ SellLockCheck(t)
  \/ SellInsert(t) \/ SellInsertFails(t) \/ SellCommit(t)

\* ---------------------------------------------------------------- money
\* a quantize whose half_up sends a tie to the even hundredth
RoundMoneyHalfEven(n, d, mode) ==
  CASE mode = "up" -> (n + d - 1) \div d
    [] mode = "down" -> n \div d
    [] OTHER -> IF 2 * (n % d) > d \/ (2 * (n % d) = d /\ (n \div d) % 2 = 1)
                  THEN (n \div d) + 1
                  ELSE n \div d

\* Decimal.quantize(Decimal("0.01"), rounding=ROUND_MAP.get(mode, ROUND_HALF_UP))
\* of the non-negative value n/d hundredths
RoundMoney(n, d, mode) ==
  CASE mode = "up" -> (n + d - 1) \div d
    [] mode = "down" -> n \div d
    [] OTHER -> (2 * n + d) \div (2 * d)

\* ---------------------------------------------------------------- guards
\* a guard that only tests that the purchase exists
EnsureOpenExistsOnly(pid) ==
  IF purchases[pid] = "NONE" THEN 404 ELSE 0

\* ensure_open / _ensure_open: 404 without a row, 409 unless OPEN, 0 when OPEN
EnsureOpen(pid) ==
  IF purchases[pid] = "NONE" THEN 404
  ELSE IF purchases[pid] # "OPEN" THEN 409
  ELSE 0

OpenPids == {p \in PurchaseIds : purchases[p] = "OPEN"}
\* _get_open_with_customer: ... WHERE purchase_status = 'OPEN' ... LIMIT 1 (0: no row)
OpenRow == IF OpenPids = {} THEN 0
           ELSE CHOOSE p \in OpenPids : \A q \in OpenPids : q <= p

ItemsOf(pid) == {i \in items : i.pid = pid}

\* ---------------------------------------------------------------- add_item
AddBegin(t, pid, prod, w, mode) ==
  /\ pc[t] = "idle"
  /\ nextItem + Cardinality({u \in Serving("add") : pc[u] # "add_commit"}) <= MaxItems
  /\ Start(t, "add_check",
           [NoReq EXCEPT !.op = "add", !.pid = pid, !.prod = prod, !.w = w, !.mode = mode])
  /\ UNCHANGED <<dbVars, seqVars, wr>>

\* ensure_open, 1) the product lookup, 3) the camera capture
AddCheck(t) ==
  /\ pc[t] = "add_check"
  /\ IF EnsureOpen(req[t].pid) # 0
       THEN Finish(t, [Resp("add", EnsureOpen(req[t].pid)) EXCEPT !.pid = req[t].pid])
       ELSE IF req[t].prod \notin Products
         THEN Finish(t, [Resp("add", 400) EXCEPT !.pid = req[t].pid])
         ELSE Goto(t, "add_insert") /\ UNCHANGED loc
  /\ UNCHANGED <<dbVars, seqVars, wr>>

\* the capture failed (502): nothing was written
AddCaptureFails(t) ==
  /\ pc[t] = "add_insert"
  /\ Finish(t, [Resp("add", 502) EXCEPT !.pid = req[t].pid])
  /\ Rollback(t)
  /\ UNCHANGED <<nextPurchase, nextItem>>

\* 4) the price, 5) INSERT INTO purchase_items (the FK takes FOR KEY SHARE on the
\* purchase, the row trigger reads its status), 6) INSERT INTO purchase_item_photos
AddInsert(t) ==
  /\ pc[t] = "add_insert"
  /\ ~PurchDeleteLocked(t, req[t].pid)
  /\ IF purchases[req[t].pid] = "NONE"
       THEN \* foreign key violation: IntegrityError is not caught, the session closes
            /\ Finish(t, [Resp("add", 500) EXCEPT !.pid = req[t].pid])
            /\ Rollback(t)
            /\ UNCHANGED <<nextPurchase, nextItem>>
       ELSE LET item == [id |-> nextItem, pid |-> req[t].pid, prod |-> req[t].prod,
                         w |-> Round2(req[t].w),
                         price |-> RoundMoney(req[t].w * ProdPrice[req[t].prod], 1000,
                                              req[t].mode)]
                rows == TrgPurchaseItems("INSERT", item, item, purchases)
            IN /\ \A p \in Touched(rows) : ~TotLocked(t, p)
               /\ wr' = [wr EXCEPT ![t] =
                           BufferUpsert([@ EXCEPT !.insItems = @ \cup {item},
                                                  !.insPhotos = @ \cup {item.id}],
                                        rows, "pw")]
               /\ loc' = [loc EXCEPT ![t].i = item.id]
               /\ nextItem' = nextItem + 1
               /\ Goto(t, "add_commit")
               /\ UNCHANGED <<dbVars, nextPurchase, nextSale, nextPayment>>

AddCommit(t) ==
  /\ pc[t] = "add_commit"
  /\ Commit(t)
  /\ Finish(t, [Resp("add", 201) EXCEPT !.pid = req[t].pid])
  /\ UNCHANGED <<nextPurchase, nextItem>>

AddStep(t) == AddCheck(t) \/ AddCaptureFails(t) \/ AddInsert(t) \/ AddCommit(t)

\* ---------------------------------------------------------------- update_item_price_only
UpdBegin(t, pid, iid, price, mode) ==
  /\ pc[t] = "idle"
  /\ Start(t, "upd_check",
           [NoReq EXCEPT !.op = "upd", !.pid = pid, !.iid = iid,
                         !.price = price, !.mode = mode])
  /\ UNCHANGED <<dbVars, seqVars, wr>>

\* ensure_open and the SELECT of the item (404 when it is not an item of the purchase)
UpdCheck(t) ==
  /\ pc[t] = "upd_check"
  /\ IF EnsureOpen(req[t].pid) # 0
       THEN Finish(t, [Resp("upd", EnsureOpen(req[t].pid)) EXCEPT !.pid = req[t].pid])
       ELSE IF ~\E i \in ItemsOf(req[t].pid) : i.id = req[t].iid
         THEN Finish(t, [Resp("upd", 404) EXCEPT !.pid = req[t].pid])
         ELSE Goto(t, "upd_write") /\ UNCHANGED loc
  /\ UNCHANGED <<dbVars, seqVars, wr>>

\* UPDATE purchase_items SET price = :p WHERE purchase_id=:pid AND purchase_item_id=:iid
UpdWrite(t) ==
  /\ pc[t] = "upd_write"
  /\ ~ItemLocked(t, req[t].iid)
  /\ IF \E i \in ItemsOf(req[t].pid) : i.id = req[t].iid
       THEN LET old == CHOOSE i \in ItemsOf(req[t].pid) : i.id = req[t].iid
                new == [old EXCEPT !.price = RoundMoney(req[t].price, 10, req[t].mode)]
                rows == TrgPurchaseItems("UPDATE", old, new, purchases)
            IN /\ \A p \in Touched(rows) : ~TotLocked(t, p)
               /\ wr' = [wr EXCEPT ![t] =
                           BufferUpsert([@ EXCEPT !.price = {<<old.id, new.price>>}],
                                        rows, "pw")]
               /\ loc' = [loc EXCEPT ![t].rowcount = 1]
       ELSE /\ wr' = wr
            /\ loc' = [loc EXCEPT ![t].rowcount = 0]
  /\ Goto(t, "upd_commit")
  /\ UNCHANGED <<dbVars, seqVars>>

\* db.commit(); with no row updated, dict(row) raises after the commit (500)
UpdCommit(t) ==
  /\ pc[t] = "upd_commit"
  /\ Commit(t)
  /\ Finish(t, [Resp("upd", IF loc[t].rowcount = 0 THEN 500 ELSE 200)
                  EXCEPT !.pid = req[t].pid])
  /\ UNCHANGED <<nextPurchase, nextItem>>

UpdStep(t) == UpdCheck(t) \/ UpdWrite(t) \/ UpdCommit(t)

\* ---------------------------------------------------------------- delete_purchase_item
DelBegin(t, pid, iid) ==
  /\ pc[t] = "idle"
  /\ Start(t, "del_check",
           [NoReq EXCEPT !.op = "del", !.pid = pid, !.iid = iid])
  /\ UNCHANGED <<dbVars, seqVars, wr>>

DelCheck(t) ==
  /\ pc[t] = "del_check"
  /\ IF EnsureOpen(req[t].pid) # 0
       THEN Finish(t, [Resp("del", EnsureOpen(req[t].pid)) EXCEPT !.pid = req[t].pid])
       ELSE Goto(t, "del_write") /\ UNCHANGED loc
  /\ UNCHANGED <<dbVars, seqVars, wr>>

\* DELETE FROM purchase_item_photos WHERE purchase_item_id=:iid, then
\* DELETE FROM purchase_items WHERE purchase_id=:pid AND purchase_item_id=:iid
DelWrite(t) ==
  /\ pc[t] = "del_write"
  /\ ~PhotoLocked(t, req[t].iid)
  /\ ~ItemLocked(t, req[t].iid)
  /\ IF \E i \in ItemsOf(req[t].pid) : i.id = req[t].iid
       THEN LET old == CHOOSE i \in ItemsOf(req[t].pid) : i.id = req[t].iid
                rows == TrgPurchaseItems("DELETE", old, old, purchases)
            IN /\ \A p \in Touched(rows) : ~TotLocked(t, p)
               /\ wr' = [wr EXCEPT ![t] =
                           BufferUpsert([@ EXCEPT !.delPhotos = {req[t].iid} \cap photos,
                                                  !.delItems = {old.id}],
                                        rows, "pw")]
               /\ loc' = [loc EXCEPT ![t].rowcount = 1]
       ELSE /\ wr' = [wr EXCEPT ![t].delPhotos = {req[t].iid} \cap photos]
            /\ loc' = [loc EXCEPT ![t].rowcount = 0]
  /\ Goto(t, "del_commit")
  /\ UNCHANGED <<dbVars, seqVars>>

\* db.commit(), then 404 when no item row was deleted
DelCommit(t) ==
  /\ pc[t] = "del_commit"
  /\ Commit(t)
  /\ Finish(t, [Resp("del", IF loc[t].rowcount = 0 THEN 404 ELSE 204)
                  EXCEPT !.pid = req[t].pid])
  /\ UNCHANGED <<nextPurchase, nextItem>>

DelStep(t) == DelCheck(t) \/ DelWrite(t) \/ DelCommit(t)

\* ---------------------------------------------------------------- pay_purchase
PayBegin(t, pid) ==
  /\ pc[t] = "idle"
  /\ Cardinality(payments) + Cardinality(Serving("pay")) < MaxPayments
  /\ Start(t, "pay_check",
           [NoReq EXCEPT !.op = "pay", !.pid = pid])
  /\ UNCHANGED <<dbVars, seqVars, wr>>

\* _has_payment: SELECT 1 FROM payment WHERE purchase_id=:pid LIMIT 1
HasPayment(pid) == \E py \in payments : py.pid = pid

\* _calc_summary: COALESCE(SUM(price),0), quantized to two decimals half up
CalcSummary(pid) == RoundMoney(SumPrice(ItemsOf(pid)), 1, "half_up")

\* a pay that tests neither the status nor the existing payment
PayCheckUnguarded(t) ==
  /\ pc[t] = "pay_check"
  /\ IF purchases[req[t].pid] = "NONE"
       THEN Finish(t, [Resp("pay", 404) EXCEPT !.pid = req[t].pid])
       ELSE IF CalcSummary(req[t].pid) <= 0
         THEN Finish(t, [Resp("pay", 400) EXCEPT !.pid = req[t].pid])
         ELSE /\ loc' = [loc EXCEPT ![t].amount = CalcSummary(req[t].pid)]
              /\ Goto(t, "pay_insert")
  /\ UNCHANGED <<dbVars, seqVars, wr>>

\* a pay without the test of the total
PayCheckNoTotalTest(t) ==
  /\ pc[t] = "pay_check"
  /\ IF EnsureOpen(req[t].pid) # 0
       THEN Finish(t, [Resp("pay", EnsureOpen(req[t].pid)) EXCEPT !.pid = req[t].pid])
       ELSE IF HasPayment(req[t].pid)
         THEN Finish(t, [Resp("pay", 409) EXCEPT !.pid = req[t].pid])
         ELSE /\ loc' = [loc EXCEPT ![t].amount = CalcSummary(req[t].pid)]
              /\ Goto(t, "pay_insert")
  /\ UNCHANGED <<dbVars, seqVars, wr>>

\* _ensure_open, _has_payment, _calc_summary and the total_a <= 0 test
PayCheck(t) ==
  /\ pc[t] = "pay_check"
  /\ IF EnsureOpen(req[t].pid) # 0
       THEN Finish(t, [Resp("pay", EnsureOpen(req[t].pid)) EXCEPT !.pid = req[t].pid])
       ELSE IF HasPayment(req[t].pid)
         THEN Finish(t, [Resp("pay", 409) EXCEPT !.pid = req[t].pid])
         ELSE IF CalcSummary(req[t].pid) <= 0
           THEN Finish(t, [Resp("pay", 400) EXCEPT !.pid = req[t].pid])
           ELSE /\ loc' = [loc EXCEPT ![t].amount = CalcSummary(req[t].pid)]
                /\ Goto(t, "pay_insert")
  /\ UNCHANGED <<dbVars, seqVars, wr>>

\* 1) INSERT INTO payment: its FK takes FOR KEY SHARE on the purchase row
PayInsert(t) ==
  /\ pc[t] = "pay_insert"
  /\ ~PurchDeleteLocked(t, req[t].pid)
  /\ IF purchases[req[t].pid] = "NONE"
       THEN \* IntegrityError: rollback, 400
            /\ Finish(t, [Resp("pay", 400) EXCEPT !.pid = req[t].pid])
            /\ Rollback(t)
            /\ UNCHANGED <<nextPurchase, nextItem>>
       ELSE /\ wr' = [wr EXCEPT ![t].payIns =
                        {[id |-> 1, pid |-> req[t].pid, amt |-> loc[t].amount]}]
            /\ Goto(t, "pay_update")
            /\ UNCHANGED <<dbVars, seqVars, loc>>

\* 3) UPDATE purchases SET purchase_status = 'DONE' WHERE purchase_id = :pid;
\* the status trigger sums the items this statement sees
PayUpdate(t) ==
  /\ pc[t] = "pay_update"
  /\ ~PurchWriteLocked(t, req[t].pid)
  /\ LET rows == TrgPurchaseStatus(purchases[req[t].pid], "DONE", req[t].pid, items) IN
       /\ \A p \in Touched(rows) : ~TotLocked(t, p)
       /\ wr' = [wr EXCEPT ![t] =
                   BufferUpsert([@ EXCEPT !.status = {req[t].pid}], rows, "pw")]
  /\ Goto(t, "pay_commit")
  /\ UNCHANGED <<dbVars, seqVars, loc>>

\* an error handler that commits the statements executed so far
PayFailsKeepsPayment(t) ==
  /\ pc[t] \in {"pay_update", "pay_commit"}
  /\ Finish(t, [Resp("pay", 500) EXCEPT !.pid = req[t].pid])
  /\ Commit(t)
  /\ UNCHANGED <<nextPurchase, nextItem>>

\* an exception between the payment insert and the commit (building the receipt
\* payload, the status update): except Exception -> db.rollback(); raise
PayFails(t) ==
  /\ pc[t] \in {"pay_update", "pay_commit"}
  /\ Finish(t, [Resp("pay", 500) EXCEPT !.pid = req[t].pid])
  /\ Rollback(t)
  /\ UNCHANGED <<nextPurchase, nextItem>>

PayCommit(t) ==
  /\ pc[t] = "pay_commit"
  /\ Commit(t)
  /\ Finish(t, [Resp("pay", 200) EXCEPT !.pid = req[t].pid])
  /\ UNCHANGED <<nextPurchase, nextItem>>

PayStep(t) == PayCheck(t) \/ PayInsert(t) \/ PayUpdate(t) \/ PayFails(t) \/ PayCommit(t)

\* ---------------------------------------------------------------- delete_open_purchase
CancelBegin(t, confirm) ==
  /\ pc[t] = "idle"
  /\ IF ~confirm
       THEN Finish(t, Resp("cancel", 400))
       ELSE Start(t, "cancel_read", [NoReq EXCEPT !.op = "cancel", !.confirm = confirm])
  /\ UNCHANGED <<dbVars, seqVars, wr>>

\* a cancel that refuses an OPEN purchase without items
CancelReadNeedsItems(t) ==
  /\ pc[t] = "cancel_read"
  /\ IF OpenRow = 0
       THEN Finish(t, Resp("cancel", 404))
       ELSE IF ItemsOf(OpenRow) = {}
         THEN Finish(t, Resp("cancel", 400))
         ELSE /\ loc' = [loc EXCEPT ![t].seen = OpenRow]
              /\ Goto(t, "cancel_items")
  /\ UNCHANGED <<dbVars, seqVars, wr>>

\* r = _get_open_with_customer(db); 404 without an OPEN purchase
CancelRead(t) ==
  /\ pc[t] = "cancel_read"
  /\ IF OpenRow = 0
       THEN Finish(t, Resp("cancel", 404))
       ELSE /\ loc' = [loc EXCEPT ![t].seen = OpenRow]
            /\ Goto(t, "cancel_items")
  /\ UNCHANGED <<dbVars, seqVars, wr>>

RECURSIVE BufferItemDeletes(_, _, _)
\* the DELETE row trigger of purchase_items, fired for every deleted row
BufferItemDeletes(w, its, st) ==
  IF its = {} THEN w
  ELSE LET x == CHOOSE y \in its : TRUE IN
       BufferItemDeletes(BufferUpsert(w, TrgPurchaseItems("DELETE", x, x, st), "pw"),
                         its \ {x}, st)

\* a cancel whose item deletes are debited from the ledger whatever the status
CancelDelItemsDebits(t) ==
  /\ pc[t] = "cancel_items"
  /\ LET its == ItemsOf(loc[t].seen)
         w == BufferItemDeletes([wr[t] EXCEPT !.delPhotos = {i.id : i \in its} \cap photos,
                                              !.delItems = {i.id : i \in its}],
                                its, [p \in PurchaseIds |-> "DONE"])
     IN /\ \A i \in its : ~ItemLocked(t, i.id) /\ ~PhotoLocked(t, i.id)
        /\ \A p \in w.touched : ~TotLocked(t, p)
        /\ wr' = [wr EXCEPT ![t] = w]
  /\ Goto(t, "cancel_purchase")
  /\ UNCHANGED <<dbVars, seqVars, loc>>

\* 2) DELETE FROM purchase_item_photos ... 3) DELETE FROM purchase_items WHERE purchase_id=:pid
CancelDelItems(t) ==
  /\ pc[t] = "cancel_items"
  /\ LET its == ItemsOf(loc[t].seen)
         w == BufferItemDeletes([wr[t] EXCEPT !.delPhotos = {i.id : i \in its} \cap photos,
                                              !.delItems = {i.id : i \in its}],
                                its, purchases)
     IN /\ \A i \in its : ~ItemLocked(t, i.id) /\ ~PhotoLocked(t, i.id)
        /\ \A p \in w.touched : ~TotLocked(t, p)
        /\ wr' = [wr EXCEPT ![t] = w]
  /\ Goto(t, "cancel_purchase")
  /\ UNCHANGED <<dbVars, seqVars, loc>>

\* a DELETE FROM purchases without the test of the status
CancelDelPurchaseAnyStatus(t) ==
  /\ pc[t] = "cancel_purchase"
  /\ ~PurchKeyShared(t, loc[t].seen)
  /\ ~PurchWriteLocked(t, loc[t].seen)
  /\ IF purchases[loc[t].seen] # "NONE"
       THEN /\ wr' = [wr EXCEPT ![t].delPurch = {loc[t].seen}]
            /\ loc' = [loc EXCEPT ![t].rowcount = 1]
       ELSE /\ wr' = wr
            /\ loc' = [loc EXCEPT ![t].rowcount = 0]
  /\ Goto(t, "cancel_commit")
  /\ UNCHANGED <<dbVars, seqVars>>

\* 4) DELETE FROM purchases WHERE purchase_id = :pid AND purchase_status = 'OPEN'
CancelDelPurchase(t) ==
  /\ pc[t] = "cancel_purchase"
  /\ ~PurchKeyShared(t, loc[t].seen)
  /\ ~PurchWriteLocked(t, loc[t].seen)
  /\ IF purchases[loc[t].seen] = "OPEN"
       THEN /\ wr' = [wr EXCEPT ![t].delPurch = {loc[t].seen}]
            /\ loc' = [loc EXCEPT ![t].rowcount = 1]
       ELSE /\ wr' = wr
            /\ loc' = [loc EXCEPT ![t].rowcount = 0]
  /\ Goto(t, "cancel_commit")
  /\ UNCHANGED <<dbVars, seqVars>>

\* db.commit(), then 409 when res.rowcount == 0
CancelCommit(t) ==
  /\ pc[t] = "cancel_commit"
  /\ Commit(t)
  /\ Finish(t, [Resp("cancel", IF loc[t].rowcount = 0 THEN 409 ELSE 200)
                  EXCEPT !.pid = loc[t].seen])
  /\ UNCHANGED <<nextPurchase, nextItem>>

CancelStep(t) ==
  CancelRead(t) \/ CancelDelItems(t) \/ CancelDelPurchase(t) \/ CancelCommit(t)

\* ---------------------------------------------------------------- open purchase
\* kind: "idcard" (idcard_commit), "existing" (quick_open_existing),
\* "anonymous" (quick_open_anonymous_commit); valid: the national id is not
\* empty / the customer exists / the photo decodes
OpenBegin(t, kind, onOpen, confirm, valid) ==
  /\ pc[t] = "idle"
  /\ nextPurchase + Cardinality(Serving("open")) <= MaxPurchases
  /\ Start(t, "open_read",
           [NoReq EXCEPT !.op = "open", !.kind = kind, !.onOpen = onOpen,
                         !.confirm = confirm, !.valid = valid])
  /\ UNCHANGED <<dbVars, seqVars, wr>>

\* a response that does not tell the caller that the purchase was resumed
ResumedNotFlagged(pid) ==
  [Resp("open", 201) EXCEPT !.pid = pid, !.notice = "pending"]
\* PurchaseOut(..., resumed=True, notice=...) of the on_open == "return" branch
Resumed(pid) ==
  [Resp("open", 201) EXCEPT !.pid = pid, !.resumed = TRUE, !.notice = "pending"]

\* quick_open_existing: the customer check, then open_row is used without a test
\* when on_open == "return"; every other policy goes straight to the INSERT
OpenReadExisting(t) ==
  /\ pc[t] = "open_read"
  /\ req[t].kind = "existing"
  /\ IF ~req[t].valid
       THEN Finish(t, Resp("open", 404))
       ELSE IF req[t].onOpen = "return"
         THEN IF OpenRow = 0
                THEN Finish(t, Resp("open", 500))   \* open_row is None: TypeError
                ELSE Finish(t, Resumed(OpenRow))
         ELSE Goto(t, "open_insert") /\ UNCHANGED loc
  /\ UNCHANGED <<dbVars, seqVars, wr>>

\* idcard_commit / quick_open_anonymous_commit: the on_open policy when a purchase
\* is OPEN, else the validation of the input
OpenReadPolicy(t) ==
  /\ pc[t] = "open_read"
  /\ req[t].kind # "existing"
  /\ IF OpenRow # 0
       THEN CASE req[t].onOpen = "return" -> Finish(t, Resumed(OpenRow))
              [] req[t].onOpen = "error" -> Finish(t, Resp("open", 409))
              [] OTHER ->
                   IF ~req[t].confirm
                     THEN Finish(t, Resp("open", 400))
                     ELSE /\ loc' = [loc EXCEPT ![t].seen = OpenRow]
                          /\ Goto(t, "open_delete")
       ELSE IF ~req[t].valid
         THEN Finish(t, Resp("open", 400))
         ELSE Goto(t, "open_insert") /\ UNCHANGED loc
  /\ UNCHANGED <<dbVars, seqVars, wr>>

\* DELETE FROM purchases WHERE purchase_id=:pid AND purchase_status='OPEN' and
\* db.commit() (the items and their photos cascade), then the input validation
OpenDelete(t) ==
  /\ pc[t] = "open_delete"
  /\ ~PurchKeyShared(t, loc[t].seen)
  /\ ~PurchWriteLocked(t, loc[t].seen)
  /\ \A i \in ItemsOf(loc[t].seen) : ~ItemLocked(t, i.id) /\ ~PhotoLocked(t, i.id)
  /\ IF purchases[loc[t].seen] = "OPEN"
       THEN /\ purchases' = [purchases EXCEPT ![loc[t].seen] = "NONE"]
            /\ updatedAt' = [updatedAt EXCEPT ![loc[t].seen] = 0]
            /\ items' = items \ ItemsOf(loc[t].seen)
            /\ photos' = photos \ {i.id : i \in ItemsOf(loc[t].seen)}
       ELSE UNCHANGED <<purchases, updatedAt, items, photos>>
  /\ IF ~req[t].valid
       THEN Finish(t, Resp("open", 400))
       ELSE Goto(t, "open_insert") /\ UNCHANGED loc
  /\ UNCHANGED <<payments, sales, totals, seqVars, wr>>

\* ux_purchases_only_one_open: the INSERT waits for a session that is updating or
\* deleting the OPEN row, and fails when an OPEN row is committed
NoUniqueOpenIndex == FALSE
UniqueOpenViolated == OpenPids # {}

\* INSERT INTO purchases (customer_id) ... and db.commit(), or IntegrityError
OpenInsert(t) ==
  /\ pc[t] = "open_insert"
  /\ \A o \in OpenPids : ~PurchWriteLocked(t, o)
  /\ IF UniqueOpenViolated
       THEN /\ Goto(t, "open_reread")
            /\ UNCHANGED <<purchases, updatedAt, nextPurchase, loc>>
       ELSE /\ purchases' = [purchases EXCEPT ![nextPurchase] = "OPEN"]
            \* updated_at TIMESTAMPTZ DEFAULT now()
            /\ updatedAt' = [updatedAt EXCEPT ![nextPurchase] = 1]
            /\ nextPurchase' = nextPurchase + 1
            /\ Finish(t, [Resp("open", 201) EXCEPT !.pid = nextPurchase])
  /\ UNCHANGED <<items, photos, payments, sales, totals,
                 nextItem, nextSale, nextPayment, wr>>

\* except IntegrityError: db.rollback(); the OPEN purchase is returned as resumed,
\* 409 when there is none any more
OpenReread(t) ==
  /\ pc[t] = "open_reread"
  /\ IF OpenRow # 0
       THEN Finish(t, [Resumed(OpenRow) EXCEPT !.notice = "found"])
       ELSE Finish(t, Resp("open", 409))
  /\ UNCHANGED <<dbVars, seqVars, wr>>

OpenStep(t) ==
  \/ OpenReadExisting(t) \/ OpenReadPolicy(t) \/ OpenDelete(t)
  \/ OpenInsert(t) \/ OpenReread(t)

\* ---------------------------------------------------------------- the system
\* create_tables on an empty database whose catalog holds product 1: the
\* backfill gives product 1 a zero ledger row; product 2 is added afterwards
Init ==
  /\ purchases = [p \in PurchaseIds |-> "NONE"]
  /\ updatedAt = [p \in PurchaseIds |-> 0]
  /\ items = {}
  /\ photos = {}
  /\ payments = {}
  /\ sales = {}
  /\ totals = [p \in Products |-> IF p = 1 THEN ZeroTotals ELSE NoTotals]
  /\ nextPurchase = 1
  /\ nextItem = 1
  /\ nextSale = 1
  /\ nextPayment = 1
  /\ pc = [t \in Procs |-> "idle"]
  /\ req = [t \in Procs |-> NoReq]
  /\ loc = [t \in Procs |-> NoLoc]
  /\ wr = [t \in Procs |-> NoWrites]
  /\ res = [t \in Procs |-> NoRes]

\* a statement of a running handler
Step(t) ==
  \/ SellStep(t) \/ AddStep(t) \/ UpdStep(t) \/ DelStep(t)
  \/ PayStep(t) \/ CancelStep(t) \/ OpenStep(t)

\* ---------------------------------------------------------------- requests
Modes == {"half_up", "up", "down"}
Policies == {"return", "delete_then_new", "error"}
Kinds == {"idcard", "existing", "anonymous"}
ItemIds == 1..MaxItems
\* the price sent to update_item_price_only (thousandths): 0.015
PriceInputs == {15}
Line(p, w) == [prod |-> p, w |-> w, note |-> NoNote]
\* the batches sent to sell_bulk (weights in thousandths)
SeqBatches ==
  { <<>>, <<Line(1, 0)>>, <<Line(3, 10)>>, <<Line(2, 10)>>,
    <<Line(1, 10)>>, <<Line(1, 14)>>, <<Line(1, 20)>>,
    <<[prod |-> 1, w |-> 10, note |-> "n"]>>,
    <<Line(1, 5), Line(1, 5)>>, <<Line(1, 10), Line(1, 20)>>,
    <<Line(1, 10), Line(2, 10)>>, <<Line(2, 10), Line(3, 10)>> }

\* the (product, weight, round_mode) of the calls of add_item: 0.005 of product 1
\* under every mode, 0.020 of every product id
AddInputs ==
  {<<1, 5, m>> : m \in Modes} \cup
  {<<p, 20, "half_up">> : p \in Products \cup UnknownProducts}
\* the (on_open, confirm_delete) of the calls that open a purchase; confirm_delete
\* is only read under delete_then_new
OpenInputs ==
  {<<o, FALSE>> : o \in Policies} \cup {<<"delete_then_new", TRUE>>}

\* a request arrives at an idle session
BeginSeq(t) ==
  \/ \E k \in Kinds, oc \in OpenInputs, v \in BOOLEAN : OpenBegin(t, k, oc[1], oc[2], v)
  \/ \E pid \in PurchaseIds, a \in AddInputs : AddBegin(t, pid, a[1], a[2], a[3])
  \/ \E pid \in PurchaseIds, i \in ItemIds, pr \in PriceInputs, m \in Modes :
         UpdBegin(t, pid, i, pr, m)
  \/ \E pid \in PurchaseIds, i \in ItemIds : DelBegin(t, pid, i)
  \/ \E pid \in PurchaseIds : PayBegin(t, pid)
  \/ \E c \in BOOLEAN : CancelBegin(t, c)
  \/ \E lines \in SeqBatches : SellBegin(t, lines)

\* the handlers run one at a time, each to its end
NextSeq == BeginSeq(1) \/ Step(1)
SpecSeq == Init /\ [][NextSeq]_vars

\* ---------------------------------------------------------------- concurrent requests
\* the calls that open a purchase: (endpoint, on_open, confirm_delete)
ConcOpens ==
  { <<"idcard", "return", FALSE>>, <<"idcard", "delete_then_new", TRUE>>,
    <<"existing", "error", FALSE>> }

\* the counter: purchases are opened, filled, paid and cancelled
Begin(t) ==
  \/ \E o \in ConcOpens : OpenBegin(t, o[1], o[2], o[3], TRUE)
  \/ \E pid \in PurchaseIds : AddBegin(t, pid, 1, 20, "half_up")
  \/ \E pid \in PurchaseIds, i \in ItemIds : DelBegin(t, pid, i)
  \/ \E pid \in PurchaseIds : PayBegin(t, pid)
  \/ CancelBegin(t, TRUE)

ConcStep(t) ==
  \/ AddStep(t) \/ DelStep(t) \/ PayStep(t) \/ CancelStep(t) \/ OpenStep(t)

\* two sessions serve requests at the same time, a statement at a time
Next == \E t \in Procs : Begin(t) \/ ConcStep(t)
Spec == Init /\ [][Next]_vars

\* the counter and the warehouse: purchases of 0.020 of product 1 are opened,
\* paid or cancelled while 0.014 and 0.010 of it are sold
StockBatches == { <<Line(1, 14)>>, <<Line(1, 10)>> }

BeginStock(t) ==
  \/ OpenBegin(t, "idcard", "return", FALSE, TRUE)
  \/ \E pid \in PurchaseIds : AddBegin(t, pid, 1, 20, "half_up")
  \/ \E pid \in PurchaseIds : PayBegin(t, pid)
  \/ CancelBegin(t, TRUE)
  \/ \E lines \in StockBatches : SellBegin(t, lines)

StockStep(t) ==
  \/ SellStep(t) \/ AddStep(t) \/ PayStep(t) \/ CancelStep(t)
  \/ OpenReadPolicy(t) \/ OpenInsert(t) \/ OpenReread(t)

NextStock == \E t \in Procs : BeginStock(t) \/ StockStep(t)
SpecStock == Init /\ [][NextStock]_vars

\* ---------------------------------------------------------------- two batches at once
PairBatches == { <<Line(1, 10)>>, <<Line(1, 14)>>, <<Line(1, 20)>> }

\* two calls of sell_bulk arrive together, one at each session
SellBeginBoth(l1, l2) ==
  /\ \A t \in Procs : pc[t] = "idle"
  /\ Cardinality(sales) + Len(l1) + Len(l2) <= MaxSales
  /\ pc' = [t \in Procs |-> "sell_exist"]
  /\ req' = [t \in Procs |->
               [NoReq EXCEPT !.op = "sell", !.lines = IF t = 1 THEN l1 ELSE l2]]
  /\ res' = [t \in Procs |-> NoRes]
  /\ UNCHANGED <<dbVars, seqVars, loc, wr>>

\* session 1 buys stock while no batch is running; then the batches come in pairs
NextPair ==
  \/ OpenBegin(1, "existing", "error", FALSE, TRUE)
  \/ OpenReadExisting(1) \/ OpenInsert(1) \/ OpenReread(1)
  \/ \E pid \in PurchaseIds : AddBegin(1, pid, 1, 20, "half_up")
  \/ AddStep(1)
  \/ \E pid \in PurchaseIds : PayBegin(1, pid)
  \/ PayStep(1)
  \/ \E l1 \in PairBatches, l2 \in PairBatches : SellBeginBoth(l1, l2)
  \/ \E t \in Procs : SellStep(t)
SpecPair == Init /\ [][NextPair]_vars

\* ---------------------------------------------------------------- stock_sales row events
\* the values of weight_sold of the rows (CHECK weight_sold >= 0)
SaleWeights == {0, 10, 20, 30}

\* INSERT INTO stock_sales (prod_id, weight_sold) VALUES (p, w) in its own transaction
RowInsert(p, w) ==
  /\ nextSale <= MaxSales
  /\ LET row == [id |-> nextSale, prod |-> p, w |-> w, note |-> NoNote] IN
       /\ sales' = sales \cup {row}
       /\ totals' = UpsertTotals(totals, TrgStockSales("INSERT", row, row), "sw")
  /\ nextSale' = nextSale + 1
  /\ UNCHANGED <<purchases, updatedAt, items, photos, payments,
                 nextPurchase, nextItem, nextPayment, procVars>>

\* DELETE FROM stock_sales WHERE stock_sales_id = id
RowDelete(id) ==
  /\ \E old \in sales :
       /\ old.id = id
       /\ sales' = sales \ {old}
       /\ totals' = UpsertTotals(totals, TrgStockSales("DELETE", old, old), "sw")
  /\ UNCHANGED <<purchases, updatedAt, items, photos, payments, seqVars, procVars>>

\* UPDATE stock_sales SET weight_sold = w WHERE stock_sales_id = id
RowUpdateWeight(id, w) ==
  /\ \E old \in sales :
       /\ old.id = id
       /\ LET new == [old EXCEPT !.w = w] IN
            /\ sales' = (sales \ {old}) \cup {new}
            /\ totals' = UpsertTotals(totals, TrgStockSales("UPDATE", old, new), "sw")
  /\ UNCHANGED <<purchases, updatedAt, items, photos, payments, seqVars, procVars>>

\* UPDATE stock_sales SET prod_id = p WHERE stock_sales_id = id
RowReassign(id, p) ==
  /\ \E old \in sales :
       /\ old.id = id
       /\ LET new == [old EXCEPT !.prod = p] IN
            /\ sales' = (sales \ {old}) \cup {new}
            /\ totals' = UpsertTotals(totals, TrgStockSales("UPDATE", old, new), "sw")
  /\ UNCHANGED <<purchases, updatedAt, items, photos, payments, seqVars, procVars>>

NextSales ==
  \/ \E p \in Products, w \in SaleWeights : RowInsert(p, w)
  \/ \E id \in 1..MaxSales : RowDelete(id)
  \/ \E id \in 1..MaxSales, w \in SaleWeights : RowUpdateWeight(id, w)
  \/ \E id \in 1..MaxSales, p \in Products : RowReassign(id, p)
SpecSales == Init /\ [][NextSales]_vars

\* ---------------------------------------------------------------- the rows of lock_sql
\* lock_sql is one SELECT ... WHERE prod_id = ANY(:ids) FOR UPDATE without ORDER BY:
\* the executor locks the rows one by one in the order its scan returns them,
\* which SQL leaves open; a row held by another session makes the statement wait
SellLockRow(t, p) ==
  /\ pc[t] = "sell_lock"
  /\ p \in LineProds(req[t].lines) \ wr[t].locked
  /\ ~TotLocked(t, p)
  /\ wr' = [wr EXCEPT ![t].locked = @ \cup {p}]
  /\ UNCHANGED <<dbVars, seqVars, pc, req, loc, res>>

\* session t waits in lock_sql for a row that session u holds
WaitsFor(t, u) ==
  /\ pc[t] = "sell_lock"
  /\ \E p \in LineProds(req[t].lines) \ wr[t].locked :
        p \in wr[u].ensured \cup wr[u].locked \cup wr[u].touched
CircularWait ==
  \E t \in Procs : \E u \in Procs \ {t} : WaitsFor(t, u) /\ WaitsFor(u, t)

\* the deadlock detector aborts one of the waiting statements: the error is not an
\* HTTPException, `except Exception` turns it into a 500 and the transaction rolls back
SellDeadlock(t) ==
  /\ CircularWait
  /\ pc[t] = "sell_lock"
  /\ Finish(t, Resp("sell", 500))
  /\ Rollback(t)
  /\ UNCHANGED <<nextPurchase, nextItem>>

\* two batches that share products 1 and 2, listed in both orders
LockBatches == { <<Line(1, 20), Line(2, 20)>>, <<Line(2, 20), Line(1, 20)>> }

\* two calls of sell_bulk arrive together, one at each session
SellBeginShared(l1, l2) ==
  /\ AllIdle
  /\ Cardinality(sales) + Len(l1) <= MaxSales
  /\ Cardinality(sales) + Len(l2) <= MaxSales
  /\ pc' = [t \in Procs |-> "sell_exist"]
  /\ req' = [t \in Procs |->
               [NoReq EXCEPT !.op = "sell", !.lines = IF t = 1 THEN l1 ELSE l2]]
  /\ res' = [t \in Procs |-> NoRes]
  /\ UNCHANGED <<dbVars, seqVars, loc, wr>>

\* session 1 buys 0.020 of each product; then the batches come in pairs
NextLock ==
  \/ OpenBegin(1, "existing", "error", FALSE, TRUE)
  \/ OpenReadExisting(1) \/ OpenInsert(1) \/ OpenReread(1)
  \/ \E pid \in PurchaseIds, p \in Products : AddBegin(1, pid, p, 20, "half_up")
  \/ AddStep(1)
  \/ \E pid \in PurchaseIds : PayBegin(1, pid)
  \/ PayStep(1)
  \/ \E l1 \in LockBatches, l2 \in LockBatches : SellBeginShared(l1, l2)
  \/ \E t \in Procs :
        \/ SellStep(t)
        \/ \E p \in Products : SellLockRow(t, p)
        \/ SellDeadlock(t)
SpecLock == Init /\ [][NextLock]_vars

\* ---------------------------------------------------------------- pay and sell at once
\* session 1 opens, fills and pays purchases of 0.020 of product 1 while
\* session 2 sells 0.014 and 0.010 of it
NextLedger ==
  \/ OpenBegin(1, "existing", "error", FALSE, TRUE)
  \/ OpenReadExisting(1) \/ OpenInsert(1) \/ OpenReread(1)
  \/ \E pid \in PurchaseIds : AddBegin(1, pid, 1, 20, "half_up")
  \/ AddStep(1)
  \/ \E pid \in PurchaseIds : PayBegin(1, pid)
  \/ PayStep(1)
  \/ \E lines \in StockBatches : SellBegin(2, lines)
  \/ SellStep(2)
SpecLedger == Init /\ [][NextLedger]_vars

\* ---------------------------------------------------------------- purchase_items row events
\* the values of weight of the rows (CHECK weight >= 0)
ItemWeights == {0, 10, 20}

\* INSERT INTO purchase_items (purchase_id, prod_id, weight, price) in its own transaction
ItemRowInsert(pid, p, w) ==
  /\ AllIdle
  /\ nextItem <= MaxItems
  /\ purchases[pid] # "NONE"
  /\ LET row == [id |-> nextItem, pid |-> pid, prod |-> p, w |-> w, price |-> 0] IN
       /\ items' = items \cup {row}
       /\ totals' = UpsertTotals(totals, TrgPurchaseItems("INSERT", row, row, purchases), "pw")
  /\ nextItem' = nextItem + 1
  /\ UNCHANGED <<purchases, updatedAt, photos, payments, sales,
                 nextPurchase, nextSale, nextPayment, procVars>>

\* DELETE FROM purchase_items WHERE purchase_item_id = id (its photos cascade)
ItemRowDelete(id) ==
  /\ AllIdle
  /\ \E old \in items :
       /\ old.id = id
       /\ items' = items \ {old}
       /\ photos' = photos \ {id}
       /\ totals' = UpsertTotals(totals, TrgPurchaseItems("DELETE", old, old, purchases), "pw")
  /\ UNCHANGED <<purchases, updatedAt, payments, sales, seqVars, procVars>>

\* UPDATE purchase_items SET weight = w WHERE purchase_item_id = id
ItemRowUpdateWeight(id, w) ==
  /\ AllIdle
  /\ \E old \in items :
       /\ old.id = id
       /\ LET new == [old EXCEPT !.w = w] IN
            /\ items' = (items \ {old}) \cup {new}
            /\ totals' = UpsertTotals(totals, TrgPurchaseItems("UPDATE", old, new, purchases), "pw")
  /\ UNCHANGED <<purchases, updatedAt, photos, payments, sales, seqVars, procVars>>

\* UPDATE purchase_items SET prod_id = p WHERE purchase_item_id = id
ItemRowReassign(id, p) ==
  /\ AllIdle
  /\ \E old \in items :
       /\ old.id = id
       /\ LET new == [old EXCEPT !.prod = p] IN
            /\ items' = (items \ {old}) \cup {new}
            /\ totals' = UpsertTotals(totals, TrgPurchaseItems("UPDATE", old, new, purchases), "pw")
  /\ UNCHANGED <<purchases, updatedAt, photos, payments, sales, seqVars, procVars>>

\* UPDATE purchase_items SET purchase_id = pid WHERE purchase_item_id = id
ItemRowMove(id, pid) ==
  /\ AllIdle
  /\ purchases[pid] # "NONE"
  /\ \E old \in items :
       /\ old.id = id
       /\ LET new == [old EXCEPT !.pid = pid] IN
            /\ items' = (items \ {old}) \cup {new}
            /\ totals' = UpsertTotals(totals, TrgPurchaseItems("UPDATE", old, new, purchases), "pw")
  /\ UNCHANGED <<purchases, updatedAt, photos, payments, sales, seqVars, procVars>>

\* session 1 opens, fills and pays purchases; between its calls rows of
\* purchase_items are inserted, changed, moved and deleted
NextItems ==
  \/ OpenBegin(1, "existing", "error", FALSE, TRUE)
  \/ OpenReadExisting(1) \/ OpenInsert(1) \/ OpenReread(1)
  \/ \E pid \in PurchaseIds : AddBegin(1, pid, 1, 20, "half_up")
  \/ AddStep(1)
  \/ \E pid \in PurchaseIds : PayBegin(1, pid)
  \/ PayStep(1)
  \/ \E pid \in PurchaseIds, p \in Products, w \in ItemWeights : ItemRowInsert(pid, p, w)
  \/ \E id \in ItemIds : ItemRowDelete(id)
  \/ \E id \in ItemIds, w \in ItemWeights : ItemRowUpdateWeight(id, w)
  \/ \E id \in ItemIds, p \in Products : ItemRowReassign(id, p)
  \/ \E id \in ItemIds, pid \in PurchaseIds : ItemRowMove(id, pid)
SpecItems == Init /\ [][NextItems]_vars

\* ---------------------------------------------------------------- the rounding of a price
\* the prices (thousandths), round_mode values and steps (thousandths, 0: none)
\* sent to update_item_price_only
RoundValues == (0..MaxThousandths) \cup (10000..10010) \cup {10300}
RoundModes == Modes \cup {"none"}
RoundSteps == {0, 250}

\* the rounding is about to be applied to the (price, round_mode, step) of a call;
\* the store is the one of Init
InitRound ==
  /\ purchases = [p \in PurchaseIds |-> "NONE"]
  /\ updatedAt = [p \in PurchaseIds |-> 0]
  /\ items = {} /\ photos = {} /\ payments = {} /\ sales = {}
  /\ totals = [p \in Products |-> IF p = 1 THEN ZeroTotals ELSE NoTotals]
  /\ nextPurchase = 1 /\ nextItem = 1 /\ nextSale = 1 /\ nextPayment = 1
  /\ pc = [t \in Procs |-> IF t = 1 THEN "round" ELSE "idle"]
  /\ \E v \in RoundValues, m \in RoundModes, s \in RoundSteps :
        req = [t \in Procs |->
                 IF t = 1 THEN [NoReq EXCEPT !.op = "round", !.price = v,
                                             !.mode = m, !.step = s]
                 ELSE NoReq]
  /\ loc = [t \in Procs |-> NoLoc]
  /\ wr = [t \in Procs |-> NoWrites]
  /\ res = [t \in Procs |-> NoRes]

\* round_mode must match ^(half_up|up|down)$ (422 otherwise); a step in the request
\* is not a parameter of the handler and is dropped;
\* new_price = _round_money(body.price, round_mode)
RoundPrice(t) ==
  /\ pc[t] = "round"
  /\ IF req[t].mode \notin Modes
       THEN /\ res' = [res EXCEPT ![t] = Resp("round", 422)]
            /\ UNCHANGED loc
       ELSE /\ loc' = [loc EXCEPT ![t].amount =
                                     RoundMoney(req[t].price, 10, req[t].mode)]
            /\ res' = [res EXCEPT ![t] = Resp("round", 200)]
  /\ pc' = [pc EXCEPT ![t] = "rounded"]
  /\ UNCHANGED <<dbVars, seqVars, req, wr>>

NextRound == RoundPrice(1)
SpecRound == InitRound /\ [][NextRound]_vars

\* ---------------------------------------------------------------- the startup backfill
\* a backfill that counts the items of every purchase, whatever its status
BackfillTotalsAnyStatus ==
  [p \in Products |->
     [has |-> TRUE,
      pw |-> SumW({i \in items : i.prod = p}),
      sw |-> SumW({r \in sales : r.prod = p})]]
\* INSERT INTO product_inventory_totals SELECT p.prod_id, COALESCE(SUM(weight) of
\* the items of DONE purchases, 0), COALESCE(SUM(weight_sold), 0) FROM product p
\* ON CONFLICT (prod_id) DO UPDATE SET both columns to the computed values
BackfillTotals ==
  [p \in Products |->
     [has |-> TRUE,
      pw |-> SumW({i \in items : i.prod = p /\ purchases[i.pid] = "DONE"}),
      sw |-> SumW({r \in sales : r.prod = p})]]

\* create_tables runs at a start of the application, when no request is served
Backfill ==
  /\ AllIdle
  /\ totals' = BackfillTotals
  /\ UNCHANGED <<purchases, updatedAt, items, photos, payments, sales,
                 seqVars, procVars>>

\* the handlers run one at a time; the application may restart between two calls
NextBackfill == BeginSeq(1) \/ Step(1) \/ Backfill
SpecBackfill == Init /\ [][NextBackfill]_vars

\* ---------------------------------------------------------------- intake
\* the calls that open, fill, pay and cancel a purchase, one at a time
BeginIntake(t) ==
  \/ \E k \in Kinds, oc \in OpenInputs, v \in BOOLEAN : OpenBegin(t, k, oc[1], oc[2], v)
  \/ \E pid \in PurchaseIds : AddBegin(t, pid, 1, 20, "half_up")
  \/ \E pid \in PurchaseIds : PayBegin(t, pid)
  \/ \E c \in BOOLEAN : CancelBegin(t, c)

NextIntake ==
  BeginIntake(1) \/ OpenStep(1) \/ AddStep(1) \/ PayStep(1) \/ CancelStep(1)
\* the server runs the statements of a handler it has started: a handler that
\* can take its next step takes it
SpecIntake ==
  Init /\ [][NextIntake]_vars /\ WF_vars(CancelStep(1)) /\ WF_vars(OpenStep(1))

\* ---------------------------------------------------------------- purchases row events
\* UPDATE purchases SET purchase_status = st WHERE purchase_id = pid, in its own
\* transaction: ux_purchases_only_one_open refuses a second OPEN row,
\* trg_set_updated_at sets updated_at, the status trigger applies its delta
PurchaseRowStatus(pid, st) ==
  /\ AllIdle
  /\ purchases[pid] # "NONE"
  /\ updatedAt[pid] < MaxRefresh
  /\ st = "OPEN" => OpenPids \subseteq {pid}
  /\ purchases' = [purchases EXCEPT ![pid] = st]
  /\ updatedAt' = [updatedAt EXCEPT ![pid] = @ + 1]
  /\ totals' = UpsertTotals(totals, TrgPurchaseStatus(purchases[pid], st, pid, items), "pw")
  /\ UNCHANGED <<items, photos, payments, sales, seqVars, procVars>>

\* session 1 opens and fills purchases; between its calls the status of a
\* purchase is rewritten, closed and reopened
NextStatus ==
  \/ OpenBegin(1, "existing", "error", FALSE, TRUE)
  \/ OpenReadExisting(1) \/ OpenInsert(1) \/ OpenReread(1)
  \/ \E pid \in PurchaseIds, p \in Products : AddBegin(1, pid, p, 20, "half_up")
  \/ AddStep(1)
  \/ \E pid \in PurchaseIds, st \in {"OPEN", "DONE"} : PurchaseRowStatus(pid, st)
SpecStatus == Init /\ [][NextStatus]_vars

\* ---------------------------------------------------------------- properties
CommittedSell(t) == res[t].op = "sell" /\ res[t].code = 200
SalesOf(p) == {r \in sales : r.prod = p}
DoneItemsOf(p) == {i \in items : purchases[i.pid] = "DONE" /\ i.prod = p}

\* C1: in every reachable state at most one purchase has status OPEN, whatever
\* the interleaving of the calls that open a purchase with pay and cancel.
AtMostOneOpen == Cardinality(OpenPids) <= 1
\* two calls raced to the INSERT: one created the OPEN purchase, the other one is
\* handling the IntegrityError of the unique index
RacingOpenLost ==
  \E t \in Procs, u \in Procs :
     /\ pc[t] = "open_reread"
     /\ req[t].kind = "existing"
     /\ res[u].op = "open" /\ res[u].code = 201 /\ ~res[u].resumed
     /\ purchases[res[u].pid] = "OPEN"

\* C2: in every committed state, whatever the interleaving of the operations, no
\* product has sold more than was purchased: purchased_weight - sold_weight >= 0.
BalanceNeverNegative == \A p \in Products : Balance(totals, p) >= 0

\* C3: in every committed state, whatever the interleaving of add item, delete
\* item, pay and cancel, purchased_weight(p) is the sum of the weights of the
\* items of product p that belong to DONE purchases.
PurchasedIsSumOfDoneItems ==
  \A p \in Products : totals[p].pw = SumW(DoneItemsOf(p))

\* C4: after any sequence of stock_sales row events (insert, delete, weight
\* update, reassignment to another product) sold_weight(p) is the sum of
\* weight_sold over the rows currently recorded for p.
SoldIsSumOfSales ==
  \A p \in Products : totals[p].sw = SumW(SalesOf(p))
\* the only row ever inserted was sold as product 2 and now belongs to product 1
ReassignedSale ==
  /\ nextSale = 2
  /\ \E r \in sales : r.prod = 1 /\ r.w = 20
  /\ totals[2].has /\ totals[2].sw = 0
  /\ totals[1].sw = 20

\* C5: two batches that run at the same time and whose combined request for a
\* product exceeds its balance (the purchased weight: nothing was sold before
\* the pair) never both commit.
ConcurrentSellsWithinBalance ==
  (CommittedSell(1) /\ CommittedSell(2)) =>
     \A p \in Products :
        Aggregate(res[1].created, p) + Aggregate(res[2].created, p) <= totals[p].pw

\* the step that ends a call of sell_bulk of session t with a success
SoldNow(t) == pc[t] = "sell_insert" /\ pc'[t] = "idle" /\ res'[t].code = 200
\* the step that ends a call of pay_purchase of session t with a success
PaidNow(t) == pc[t] = "pay_commit" /\ pc'[t] = "idle" /\ res'[t].code = 200
PaymentsOf(pay, pid) == {py \in pay : py.pid = pid}

\* C6: a sell batch is all-or-nothing: no step of a call that is rejected (bad
\* request, missing product, aggregated request over the balance, unexpected
\* error after lines were inserted) changes stock_sales or a ledger row.
RejectedSellLeavesNothing ==
  [][ \A t \in Procs :
        ( \/ req[t].op = "sell" /\ ~SoldNow(t)
          \/ pc[t] = "idle" /\ res'[t].op = "sell" /\ res'[t].code # 200 )
        => UNCHANGED <<sales, totals>> ]_vars
\* a batch of two lines was refused for their sum (0.030 against 0.020) although
\* the first line alone fits: nothing of it is recorded
AggregatedBatchRefused ==
  /\ res[1].op = "sell" /\ res[1].code = 409
  /\ res[1].qty = 30 /\ res[1].avail = 20
  /\ sales = {} /\ totals[1].sw = 0 /\ totals[1].pw = 20

\* C7: a valid batch succeeds if and only if, for every product, the sum of its
\* lines is at most the balance read under the lock; a request equal to the
\* balance succeeds and leaves the balance at 0.
SellSucceedsIffWithinBalance ==
  [][ \A t \in Procs :
        (pc[t] \in {"sell_lock", "sell_insert"} /\ pc'[t] = "idle"
           /\ res'[t].code \in {200, 409}) =>
          /\ (res'[t].code = 200) <=>
                (\A p \in LineProds(req[t].lines) :
                    Aggregate(req[t].lines, p) <= Balance(totals, p))
          /\ (res'[t].code = 200) =>
                (\A p \in LineProds(req[t].lines) :
                    (Aggregate(req[t].lines, p) = Balance(totals, p))
                       => Balance(totals', p) = 0) ]_vars

\* C8: a successful batch creates exactly one stock_sales row per line, with
\* the line's own product, weight and note; sold_weight grows by the sum of
\* the lines of each product; purchased_weight and the ledger rows of the
\* products outside the batch do not change.
SellRecordsEveryLine ==
  [][ \A t \in Procs :
        SoldNow(t) =>
          LET lines == req[t].lines
              new == sales' \ sales
          IN /\ sales \subseteq sales'
             /\ Cardinality(new) = Len(lines)
             /\ \E f \in [DOMAIN lines -> new] :
                   /\ \A i, j \in DOMAIN lines : f[i] = f[j] => i = j
                   /\ \A i \in DOMAIN lines :
                        /\ f[i].prod = lines[i].prod
                        /\ f[i].w = lines[i].w
                        /\ f[i].note = lines[i].note
             /\ \A p \in Products :
                   /\ totals'[p].sw = totals[p].sw + Aggregate(lines, p)
                   /\ totals'[p].pw = totals[p].pw
             /\ \A p \in Products \ LineProds(lines) : totals'[p] = totals[p] ]_vars

\* C9: the pay that closes a purchase raises purchased_weight(p) by exactly the
\* sum of the weights of the purchase's items of p, and no other step of any
\* call changes purchased_weight: nothing is credited before the payment, and
\* nothing twice.
PayCreditsItemsOnce ==
  [][ /\ \A t \in Procs :
           PaidNow(t) =>
             /\ purchases[req[t].pid] = "OPEN"
             /\ purchases'[req[t].pid] = "DONE"
             /\ \A p \in Products :
                   totals'[p].pw =
                     totals[p].pw + SumW({i \in ItemsOf(req[t].pid) : i.prod = p})
      /\ (~\E t \in Procs : PaidNow(t)) =>
           \A p \in Products : totals'[p].pw = totals[p].pw ]_vars
\* a purchase with items of 0.010 and 0.020 of product 1 was paid: 0.030 credited
PaidTwoItems ==
  /\ res[1].op = "pay" /\ res[1].code = 200
  /\ \E i \in ItemsOf(res[1].pid), j \in ItemsOf(res[1].pid) :
        i.prod = 1 /\ j.prod = 1 /\ i.w = 10 /\ j.w = 20
  /\ totals[1].pw = 30

\* C10: a pay of a purchase that was paid before changes nothing and ends with
\* a conflict; a purchase has one payment row when it is DONE and none before.
SecondPayConflicts ==
  [][ /\ \A t \in Procs :
           (req[t].op = "pay" /\ purchases[req[t].pid] = "DONE") =>
             /\ UNCHANGED dbVars
             /\ pc'[t] = "idle" => res'[t].code = 409
      /\ \A pid \in PurchaseIds :
           Cardinality(PaymentsOf(payments', pid)) =
             IF purchases'[pid] = "DONE" THEN 1 ELSE 0 ]_vars
\* the second pay of a purchase was refused: one payment, its item credited once
PaidTwiceRefused ==
  /\ res[1].op = "pay" /\ res[1].code = 409
  /\ purchases[res[1].pid] = "DONE"
  /\ Cardinality(PaymentsOf(payments, res[1].pid)) = 1
  /\ Cardinality(items) = 1
  /\ \A p \in Products : totals[p].pw = SumW(DoneItemsOf(p))
  /\ totals[1].pw > 0

\* C11: in every reachable state a purchase has at most one payment row, also
\* when two calls of pay for the same OPEN purchase run at the same time and both
\* pass the status test and the existing-payment test before either commits.
OnePaymentPerPurchase ==
  \A pid \in PurchaseIds : Cardinality(PaymentsOf(payments, pid)) <= 1

\* C12: pay is atomic: in every committed state a purchase is DONE if and only if
\* it has a payment row, whichever step of pay failed.
PayIsAtomic ==
  \A pid \in PurchaseIds :
     (purchases[pid] = "DONE") <=> (PaymentsOf(payments, pid) # {})
\* a pay failed after its INSERT INTO payment while the other session had paid
\* the first purchase: the failed one left no payment and its purchase OPEN
FailedPayLeftNothing ==
  \E t \in Procs :
     /\ res[t].op = "pay" /\ res[t].code = 500
     /\ purchases[res[t].pid] = "OPEN"
     /\ PaymentsOf(payments, res[t].pid) = {}
     /\ \E pid \in PurchaseIds :
           purchases[pid] = "DONE" /\ PaymentsOf(payments, pid) # {}

ItemCalls == {"add", "upd", "del"}

\* C13: add item, update item price and delete item called on a DONE purchase
\* end with a conflict (409), called on a purchase that does not exist with
\* not-found (404); no line item, photo reference or ledger row changes.
ClosedPurchaseRefusesItemCalls ==
  [][ \A t \in Procs :
        (req[t].op \in ItemCalls /\ purchases[req[t].pid] # "OPEN") =>
          /\ UNCHANGED <<items, photos, totals>>
          /\ pc'[t] = "idle"
          /\ res'[t].code = IF purchases[req[t].pid] = "DONE" THEN 409 ELSE 404 ]_vars
\* the delete of the item of a paid purchase was refused: the item, its photo
\* and the credited weight are still there
DeleteOnDoneRefused ==
  /\ res[1].op = "del" /\ res[1].code = 409
  /\ purchases[res[1].pid] = "DONE"
  /\ \E i \in ItemsOf(res[1].pid) : i.id \in photos /\ totals[i.prod].pw = i.w /\ i.w > 0

\* C14: whatever the interleaving of add item, update item price and delete item
\* with a pay of the same purchase, the line items of a DONE purchase are the
\* ones it had when it became DONE: none is inserted, re-priced or removed later.
DoneItemsFrozen ==
  [][ \A pid \in PurchaseIds :
        purchases[pid] = "DONE" => {i \in items' : i.pid = pid} = ItemsOf(pid) ]_vars

\* C15: while a purchase is OPEN, a call that opens a purchase creates none and
\* ends with a conflict (409); so does the loser of two calls that race.
SecondOpenConflicts ==
  [][ \A t \in Procs :
        (req[t].op = "open" /\ OpenPids # {}) =>
          /\ purchases' = purchases
          /\ pc'[t] = "idle" => res'[t].code = 409 ]_vars

\* the step that ends a call of delete_open_purchase of session t
CancelledNow(t) == pc[t] = "cancel_commit" /\ pc'[t] = "idle"

\* C16: a confirmed cancel of the OPEN purchase removes that purchase, its line
\* items and their photo references, leaves the ledger, the payments, the sales
\* and every other purchase as they were, and leaves no purchase OPEN; no
\* earlier step of the call changes a committed row.
CancelRemovesOpenPurchase ==
  [][ \A t \in Procs :
        /\ (CancelledNow(t) /\ res'[t].code = 200) =>
             LET pid == loc[t].seen IN
             /\ purchases[pid] = "OPEN"
             /\ purchases' = [purchases EXCEPT ![pid] = "NONE"]
             /\ items' = items \ ItemsOf(pid)
             /\ photos' = photos \ {i.id : i \in ItemsOf(pid)}
             /\ UNCHANGED <<totals, payments, sales>>
             /\ \A q \in PurchaseIds : purchases'[q] # "OPEN"
        /\ (req[t].op = "cancel" /\ ~CancelledNow(t)) => UNCHANGED dbVars ]_vars
\* the second purchase was cancelled with its item and photo; the first one,
\* paid before, keeps its item, its photo and its credited weight
CancelledSecondPurchase ==
  /\ res[1].op = "cancel" /\ res[1].code = 200 /\ res[1].pid = 2
  /\ purchases = <<"DONE", "NONE">>
  /\ nextItem = 3 /\ Cardinality(items) = 1 /\ photos = {i.id : i \in items}
  /\ \A p \in Products : totals[p].pw = SumW(DoneItemsOf(p))
  /\ totals[1].pw > 0

\* C17: cancel never removes or alters a DONE purchase, its items, their photo
\* references or the ledger: a cancel that ends in an error (not found, or the
\* conflict raised when a pay closed the purchase first) commits no change.
FailedCancelChangesNothing ==
  [][ \A t \in Procs :
        (req[t].op = "cancel" /\ pc[t] # "idle" /\ pc'[t] = "idle"
           /\ res'[t].code # 200) => UNCHANGED dbVars ]_vars

\* C18: DONE is terminal: a purchase that is DONE exists and is DONE in every
\* later state, whatever operation runs (pay, cancel, the calls that open a
\* purchase with delete_then_new, the item calls).
DoneIsTerminal ==
  [][ \A pid \in PurchaseIds :
        purchases[pid] = "DONE" => purchases'[pid] = "DONE" ]_vars
\* a cancel that had read purchase pid as OPEN lost the race against its pay:
\* its DELETE matched no row and the purchase is still there, DONE
CancelLostToPay ==
  \E t \in Procs :
     /\ res[t].op = "cancel" /\ res[t].code = 409
     /\ purchases[res[t].pid] = "DONE"

\* C19: inserting, re-pricing or deleting a line item while its purchase is OPEN
\* changes neither purchased_weight nor sold_weight of any product and creates
\* no ledger row.
OpenItemsLeaveLedger ==
  [][ \A t \in Procs :
        (req[t].op \in ItemCalls /\ purchases[req[t].pid] = "OPEN") =>
          totals' = totals ]_vars
\* items of both products were added to the OPEN purchase, one was re-priced:
\* nothing is credited and product 2 still has no ledger row
RepricedOpenItem ==
  /\ res[1].op = "upd" /\ res[1].code = 200
  /\ purchases[res[1].pid] = "OPEN"
  /\ \E i \in ItemsOf(res[1].pid), j \in ItemsOf(res[1].pid) :
        i.prod = 1 /\ i.w > 0 /\ j.prod = 2 /\ j.w > 0
  /\ totals[1] = ZeroTotals /\ totals[2] = NoTotals

\* C20: a pay of an OPEN purchase whose total (the sum of the prices of its
\* items) is not positive, a purchase without items included, ends with a
\* validation error (400): no payment row, the purchase stays OPEN and the
\* ledger does not change.
PayRefusesZeroTotal ==
  [][ \A t \in Procs :
        (req[t].op = "pay" /\ purchases[req[t].pid] = "OPEN"
           /\ SumPrice(ItemsOf(req[t].pid)) <= 0) =>
          /\ UNCHANGED dbVars
          /\ pc'[t] = "idle"
          /\ res'[t].code = 400 ]_vars
\* the pay of a purchase whose only item is priced 0.00 was refused
ZeroTotalPayRefused ==
  /\ res[1].op = "pay" /\ res[1].code = 400
  /\ purchases[res[1].pid] = "OPEN"
  /\ \E i \in ItemsOf(res[1].pid) : i.w > 0 /\ i.price = 0
  /\ payments = {}
  /\ \A p \in Products : totals[p].pw = 0

\* the step is a row event of purchase_items
ItemRowEvent == AllIdle /\ (\A t \in Procs : pc'[t] = "idle") /\ items' # items
DoneItemsAfter(p) == {i \in items' : purchases'[i.pid] = "DONE" /\ i.prod = p}

\* C21: when a row of purchase_items is inserted, has its weight or product
\* changed, is moved to another purchase or is deleted, the ledger gets the
\* signed delta in the same transaction (the old weight leaves the old product
\* when the old parent is DONE, the new weight enters the new product when the
\* new parent is DONE): purchased_weight(p) is again the sum over DONE items.
ItemEventsKeepPurchasedSum ==
  [][ ItemRowEvent =>
        \A p \in Products :
           /\ totals'[p].pw - totals[p].pw = SumW(DoneItemsAfter(p)) - SumW(DoneItemsOf(p))
           /\ totals'[p].pw = SumW(DoneItemsAfter(p))
           /\ totals'[p].sw = totals[p].sw ]_vars
\* both purchases are DONE; the item of purchase 1 was moved to purchase 2 and
\* given to product 2 with another weight: product 2 holds it, product 1 only
\* what is left
MovedDoneItem ==
  /\ purchases = <<"DONE", "DONE">>
  /\ ItemsOf(1) = {}
  /\ \E i \in ItemsOf(2), j \in ItemsOf(2) : i.prod = 2 /\ i.w = 10 /\ j.prod = 1 /\ j.w = 20
  /\ totals[2].pw = 10 /\ totals[1].pw = 20

\* the ids of a batch that are not in the catalog
Missing(lines) == LineProds(lines) \ Products

\* C22: a batch that references a product id that is not in the catalog ends
\* with not-found (404) naming the missing ids and persists nothing: no row of
\* stock_sales, no new or changed ledger row (also for the products of the batch
\* that exist), no lock left behind.
MissingProductRefused ==
  [][ \A t \in Procs :
        (req[t].op = "sell" /\ Missing(req[t].lines) # {}) =>
          /\ pc'[t] = "idle"
          /\ res'[t].code = 404
          /\ res'[t].missing = Missing(req[t].lines)
          /\ UNCHANGED <<dbVars, wr>> ]_vars
\* a batch naming product 3 was refused while product 1 was in stock and
\* product 2 had no ledger row: nothing was sold, product 2 still has no row
MissingProductNamed ==
  /\ res[1].op = "sell" /\ res[1].code = 404 /\ res[1].missing = {3}
  /\ sales = {}
  /\ totals[1].pw > 0 /\ totals[1].sw = 0
  /\ ~totals[2].has

\* the products of a batch that have no ledger row
NeverPurchased(lines) == {p \in LineProds(lines) \cap Products : ~totals[p].has}

\* C23: a batch that references an existing product without a ledger row ends
\* with a validation error that names that product as never purchased, creates
\* no row of stock_sales and leaves the product without a ledger row.
NeverPurchasedRefused ==
  [][ \A t \in Procs :
        (req[t].op = "sell" /\ Missing(req[t].lines) = {}
           /\ NeverPurchased(req[t].lines) # {} /\ pc'[t] = "idle") =>
          /\ res'[t].code \in {400, 422}
          /\ res'[t].prod \in NeverPurchased(req[t].lines)
          /\ UNCHANGED <<sales, totals>> ]_vars

\* C24: an empty batch, or a batch with a line whose weight_sold is not
\* positive, is rejected as a whole with a validation error before any read,
\* lock or write: only batches that are not empty and whose weights are all
\* positive reach the handler's transaction, and the rejection changes no row.
InvalidBatchRejectedFirst ==
  [][ \A t \in Procs :
        /\ (req'[t].op = "sell") =>
              /\ req'[t].lines # <<>>
              /\ \A i \in DOMAIN req'[t].lines : req'[t].lines[i].w > 0
        /\ (res'[t].op = "sell" /\ res'[t].code \in {400, 422}) =>
              /\ pc[t] = "idle" /\ pc'[t] = "idle"
              /\ UNCHANGED <<dbVars, seqVars, wr>> ]_vars
\* a batch was rejected as invalid while 0.020 of product 1 was in stock
InvalidBatchRejected ==
  /\ res[1].op = "sell" /\ res[1].code = 422
  /\ totals[1].pw = 20 /\ totals[1].sw = 0 /\ sales = {}
  /\ wr[1] = NoWrites

\* C25: two batches that run at the same time and share two or more products
\* take the locks of the ledger rows in one order, whatever the order of their
\* lines: no state is reachable in which each waits for a row the other holds.
NoCircularWait == ~CircularWait

\* C26: ledger deltas are not lost under concurrency: when a pay that credits
\* purchased_weight(p) and a batch that adds to sold_weight(p) run and commit
\* at the same time, the row of p holds every credited weight and every sold
\* weight; neither writer overwrites the other's column with a stale value.
LedgerKeepsBothColumns ==
  \A p \in Products :
     /\ totals[p].pw = SumW(DoneItemsOf(p))
     /\ totals[p].sw = SumW(SalesOf(p))
\* 0.010 of product 1 was sold from the first purchase; a second batch holds
\* the locked row with its uncommitted sale while the pay of the second
\* purchase waits to credit the same row
PayWaitsForSell ==
  /\ pc[2] = "sell_insert" /\ wr[2].dsw[1] > 0
  /\ pc[1] = "pay_update" /\ purchases[req[1].pid] = "OPEN"
  /\ ItemsOf(req[1].pid) # {}
  /\ totals[1].pw = 20 /\ totals[1].sw = 10

\* the step that ends a call of update_item_price_only of session t with a success
RepricedNow(t) == pc[t] = "upd_commit" /\ pc'[t] = "idle" /\ res'[t].code = 200

\* C27: update item price changes only the price of the addressed item: its
\* weight, product and purchase, every other item, the status of the purchases,
\* the photos, the payments and every ledger row stay as they were.
UpdateChangesOnlyPrice ==
  [][ \A t \in Procs :
        /\ RepricedNow(t) =>
             \E old \in ItemsOf(req[t].pid) :
                /\ old.id = req[t].iid
                /\ \E new \in items' :
                      /\ new.id = old.id
                      /\ items' = (items \ {old}) \cup {[old EXCEPT !.price = new.price]}
                /\ UNCHANGED <<purchases, updatedAt, photos, payments, sales, totals>>
        /\ (req[t].op = "upd" /\ ~RepricedNow(t)) => UNCHANGED dbVars ]_vars
\* one of the two items of the OPEN purchase was re-priced to 0.02: the other
\* keeps the price it was created with, both keep their weight and product
RepricedOneOfTwo ==
  /\ res[1].op = "upd" /\ res[1].code = 200
  /\ purchases[res[1].pid] = "OPEN"
  /\ \E i \in ItemsOf(res[1].pid), j \in ItemsOf(res[1].pid) :
        /\ i.prod = 1 /\ i.w = 20 /\ i.price = 2
        /\ j.prod = 1 /\ j.w = 20 /\ j.price = 3
  /\ \A p \in Products : totals[p].pw = 0


\* C28: the rounding of a non-negative price of thousandths v under a mode, no
\* step given, is the amount r of hundredths fixed by (v, mode) alone: half_up
\* takes the nearest hundredth and a tie goes up (10.005 gives 10.01), down
\* truncates (10.004 gives 10.00), up takes the next hundredth whenever a
\* remainder exists.
RoundingIsAsDocumented ==
  \A t \in Procs :
    (pc[t] = "rounded" /\ req[t].mode \in Modes /\ req[t].step = 0) =>
      LET v == req[t].price
          r == loc[t].amount
      IN /\ res[t].code = 200
         /\ req[t].mode = "half_up" => (10 * r - 5 <= v /\ v < 10 * r + 5)
         /\ req[t].mode = "down" => (10 * r <= v /\ v < 10 * r + 10)
         /\ req[t].mode = "up" => (10 * r - 10 < v /\ v <= 10 * r)
         /\ (v = 10005 /\ req[t].mode = "half_up") => r = 1001
         /\ (v = 10004 /\ req[t].mode = "down") => r = 1000
\* 10.005 was rounded half_up to 10.01
TieRoundedUp ==
  /\ pc[1] = "rounded" /\ req[1].price = 10005 /\ req[1].mode = "half_up"
  /\ req[1].step = 0 /\ loc[1].amount = 1001

\* C29: when a step is given the price is snapped to the multiple of the step
\* that the policy picks and then quantized (10.30, half_up, step 0.25 gives
\* 10.25), and the mode that does not round beyond two decimals is accepted.
StepSnapsPrice ==
  \A t \in Procs :
    pc[t] = "rounded" =>
      /\ (req[t].step # 0 /\ req[t].mode \in Modes) =>
            LET snapped == RoundMoney(req[t].price, req[t].step, req[t].mode)
                               * req[t].step
            IN loc[t].amount = RoundMoney(snapped, 10, req[t].mode)
      /\ req[t].mode = "none" => res[t].code = 200
\* C30: every mutation of a purchase refreshes its updated_at: when pay, add
\* item, update item price or delete item has committed its change, the
\* updated_at of the purchase is later than it was before the call.
MutationRefreshesUpdatedAt ==
  [][ \A t \in Procs :
        ( /\ pc[t] \in {"pay_commit", "add_commit", "upd_commit", "del_commit"}
          /\ pc'[t] = "idle"
          /\ res'[t].code \in {200, 201, 204} )
        => updatedAt'[req[t].pid] > updatedAt[req[t].pid] ]_vars
\* a call that opens a purchase returns to the caller
OpenReturns(t) == req[t].op = "open" /\ pc[t] # "idle" /\ pc'[t] = "idle"

\* C31: when no purchase is OPEN, every call that opens a purchase with valid
\* input, under every on_open policy, creates exactly one new OPEN purchase and
\* returns it with resumed=false.
OpenCreatesPurchase ==
  [][ \A t \in Procs :
        (OpenReturns(t) /\ req[t].valid /\ OpenPids = {}) =>
          /\ res'[t].code = 201 /\ ~res'[t].resumed
          /\ purchases[res'[t].pid] = "NONE"
          /\ purchases' = [purchases EXCEPT ![res'[t].pid] = "OPEN"] ]_vars

ErrorPolicyConflicts ==
  [][ \A t \in Procs :
        ( /\ OpenReturns(t) /\ req[t].onOpen = "error" /\ OpenPids # {}
          /\ (req[t].kind = "existing" => req[t].valid) )
        => /\ res'[t].code = 409
           /\ UNCHANGED <<dbVars, seqVars>> ]_vars

\* C34: a call with on_open = "delete_then_new" is all-or-nothing: when it
\* returns, either it has created a new OPEN purchase and the OPEN purchase it
\* found is gone, or the purchase it found is still OPEN; without
\* confirm_delete = true it deletes nothing.
DeleteThenNewIsAtomic ==
  [][ \A t \in Procs :
        (OpenReturns(t) /\ req[t].onOpen = "delete_then_new") =>
          /\ ~req[t].confirm =>
                /\ \A p \in PurchaseIds : purchases[p] # "NONE" => purchases'[p] = purchases[p]
                /\ UNCHANGED <<items, photos>>
          /\ IF res'[t].code = 201 /\ ~res'[t].resumed
               THEN /\ purchases'[res'[t].pid] = "OPEN"
                    /\ loc[t].seen # 0 => purchases'[loc[t].seen] = "NONE"
               ELSE /\ loc[t].seen # 0 => purchases'[loc[t].seen] = "OPEN"
                    /\ OpenPids # {} => OpenPids' = OpenPids ]_vars
\* C35: delete item for an item id that is not an item of the (OPEN) purchase
\* fails with 404 and leaves every item and every photo row of every purchase
\* unchanged.
DeleteUnknownItemChangesNothing ==
  [][ \A t \in Procs :
        ( /\ req[t].op = "del" /\ pc[t] # "idle" /\ pc'[t] = "idle"
          /\ purchases[req[t].pid] = "OPEN"
          /\ ~\E i \in ItemsOf(req[t].pid) : i.id = req[t].iid )
        => /\ res'[t].code = 404
           /\ UNCHANGED <<items, photos>> ]_vars
\* C36: in every state reached by calls executed one at a time, the startup
\* backfill changes neither column of any product's ledger row, so that
\* running it again changes nothing either.
BackfillChangesNoValue ==
  [][ (AllIdle /\ UNCHANGED procVars) =>
        \A p \in Products : /\ totals'[p].pw = totals[p].pw
                             /\ totals'[p].sw = totals[p].sw ]_vars
\* the backfill ran over a ledger with purchases and sales of product 1 and an
\* OPEN purchase with an item, and gave product 2 its zero row
BackfilledLedger ==
  /\ AllIdle
  /\ totals[2] = ZeroTotals /\ totals[1].pw > 0 /\ totals[1].sw > 0
  /\ \E i \in items : purchases[i.pid] = "OPEN"
\* C37: in every committed state the amount of the payment of a DONE purchase
\* is the sum of the prices of its items, rounded half up to two decimals, also
\* when add item or delete item ran on the purchase while it was being paid.
PaymentIsSumOfPrices ==
  \A py \in payments :
    purchases[py.pid] = "DONE" =>
      py.amt = RoundMoney(SumPrice(ItemsOf(py.pid)), 1, "half_up")
\* C38: intake is never blocked for good: whenever a purchase is OPEN, also one
\* without items that cannot be paid, cancel with confirm=true can be called,
\* a cancel that was called ends with no purchase OPEN, and a call that opens
\* a purchase when none is OPEN ends with a new OPEN purchase.
IntakeNeverBlocked ==
  /\ []((AllIdle /\ OpenPids # {}) => ENABLED CancelBegin(1, TRUE))
  /\ (pc[1] = "cancel_read" /\ OpenPids # {})
        ~> (res[1].op = "cancel" /\ res[1].code = 200 /\ OpenPids = {})
  /\ (pc[1] = "open_read" /\ req[1].kind # "existing" /\ req[1].valid /\ OpenPids = {})
        ~> (res[1].op = "open" /\ res[1].code = 201 /\ ~res[1].resumed
              /\ purchases[res[1].pid] = "OPEN")
\* an OPEN purchase that never had an item was cancelled
EmptyPurchaseCancelled ==
  /\ res[1].op = "cancel" /\ res[1].code = 200
  /\ purchases[res[1].pid] = "NONE" /\ OpenPids = {}
  /\ nextItem = 1
\* C39: the reopen branch of the status trigger is the inverse of the close
\* branch: an update of the status from DONE to OPEN lowers each product's
\* purchased_weight by the sum of the weights of the purchase's items, an update
\* from OPEN to DONE raises it by the same sum, an update from DONE to DONE (or
\* OPEN to OPEN) applies no delta; purchased_weight is the sum of the items of
\* the DONE purchases after each of them, so closing, reopening and closing
\* again gives the ledger of the first close.
ReopenInvertsClose ==
  [][ \A pid \in PurchaseIds :
        (AllIdle /\ UNCHANGED procVars /\ updatedAt'[pid] > updatedAt[pid]) =>
          \A p \in Products :
            LET sum == SumW({i \in items : i.pid = pid /\ i.prod = p})
                delta == IF purchases[pid] = "DONE" /\ purchases'[pid] = "OPEN"
                           THEN 0 - sum
                         ELSE IF purchases[pid] = "OPEN" /\ purchases'[pid] = "DONE"
                           THEN sum
                         ELSE 0
            IN /\ totals'[p].pw = totals[p].pw + delta
               /\ totals'[p].pw = SumW(DoneItemsAfter(p)) ]_vars
\* a purchase with an item of product 2 was closed and reopened: the credit of
\* product 2 was taken back
ReopenedPurchase ==
  /\ AllIdle
  /\ \E pid \in PurchaseIds :
        /\ purchases[pid] = "OPEN" /\ updatedAt[pid] >= 3
        /\ \E i \in ItemsOf(pid) : i.prod = 2
  /\ totals[2] = ZeroTotals
====
